---- MODULE Spec2Model ----
(***************************************************************************)
(* A model of the rejectchess position stack: board primitives, the       *)
(* candidate move generator, the attack oracle, make-move, the legality    *)
(* filter and the Game facade.  Squares are <<file, rank>> pairs with      *)
(* file, rank in 0..7, as in board.rs; a board is a tuple of eight ranks   *)
(* of eight squares, indexed board[rank + 1][file + 1].                    *)
(***************************************************************************)
EXTENDS Integers, Sequences, FiniteSets, TLC

(***************************************************************************)
(* board.rs                                                                *)
(***************************************************************************)
White == "White"
Black == "Black"

opposite(color) == IF color = White THEN Black ELSE White

\* Option<Piece>::None and Option<Square>::None
NoPiece == [color |-> "None", kind |-> "None"]
NoSquare == <<>>

Piece(color, kind) == [color |-> color, kind |-> kind]

in_bounds(file, rank) == file >= 0 /\ file < 8 /\ rank >= 0 /\ rank < 8

piece_at(board, sq) == board[sq[2] + 1][sq[1] + 1]

set_piece(board, sq, piece) == [board EXCEPT ![sq[2] + 1][sq[1] + 1] = piece]

Squares == {<<f, r>> : f \in 0..7, r \in 0..7}

Colors == {White, Black}

(***************************************************************************)
(* dirs.rs: the direction tables (their contents are those of section 4.A) *)
(***************************************************************************)
KNIGHT_DIRS == << <<1, 2>>, <<2, 1>>, <<2, -1>>, <<1, -2>>,
                 <<-1, -2>>, <<-2, -1>>, <<-2, 1>>, <<-1, 2>> >>
KING_DIRS == << <<1, 0>>, <<1, 1>>, <<0, 1>>, <<-1, 1>>,
               <<-1, 0>>, <<-1, -1>>, <<0, -1>>, <<1, -1>> >>
ROOK_DIRS == << <<1, 0>>, <<-1, 0>>, <<0, 1>>, <<0, -1>> >>
BISHOP_DIRS == << <<1, 1>>, <<1, -1>>, <<-1, 1>>, <<-1, -1>> >>
QUEEN_DIRS == ROOK_DIRS \o BISHOP_DIRS

(***************************************************************************)
(* moves.rs as movegen.rs and rules.rs use it: a move is (from, to, kind), *)
(* kind one of Normal, EnPassant, CastleKingside, CastleQueenside,         *)
(* Promotion(PieceKind).                                                   *)
(***************************************************************************)
Normal == [tag |-> "Normal", promo |-> "None"]
EnPassant == [tag |-> "EnPassant", promo |-> "None"]
CastleKingside == [tag |-> "CastleKingside", promo |-> "None"]
CastleQueenside == [tag |-> "CastleQueenside", promo |-> "None"]
Promotion(kind) == [tag |-> "Promotion", promo |-> kind]

Move(from, to, kind) == [from |-> from, to |-> to, kind |-> kind]

(***************************************************************************)
(* state.rs                                                                *)
(***************************************************************************)
CastlingRights_new ==
    [white_kingside |-> TRUE, white_queenside |-> TRUE,
     black_kingside |-> TRUE, black_queenside |-> TRUE]

back_rank == <<"Rook", "Knight", "Bishop", "Queen", "King", "Bishop", "Knight", "Rook">>

empty_rank == <<NoPiece, NoPiece, NoPiece, NoPiece, NoPiece, NoPiece, NoPiece, NoPiece>>

pawn_rank == <<"Pawn", "Pawn", "Pawn", "Pawn", "Pawn", "Pawn", "Pawn", "Pawn">>

rank_of(color, kinds) ==
    << Piece(color, kinds[1]), Piece(color, kinds[2]), Piece(color, kinds[3]),
       Piece(color, kinds[4]), Piece(color, kinds[5]), Piece(color, kinds[6]),
       Piece(color, kinds[7]), Piece(color, kinds[8]) >>

GameState_new ==
    [board |-> << rank_of(White, back_rank), rank_of(White, pawn_rank),
                  empty_rank, empty_rank, empty_rank, empty_rank,
                  rank_of(Black, pawn_rank), rank_of(Black, back_rank) >>,
     side_to_move |-> White,
     castling |-> CastlingRights_new,
     en_passant |-> NoSquare,
     white_king |-> <<4, 0>>,
     black_king |-> <<4, 7>>]

(***************************************************************************)
(* Sequence helpers                                                        *)
(***************************************************************************)
RECURSIVE FlattenFrom(_, _)
FlattenFrom(ss, i) ==
    IF i > Len(ss) THEN <<>> ELSE ss[i] \o FlattenFrom(ss, i + 1)

Flatten(ss) == FlattenFrom(ss, 1)

Range(s) == {s[i] : i \in 1..Len(s)}

(***************************************************************************)
(* movegen.rs                                                              *)
(***************************************************************************)
PROMOTION_PIECES == <<"Queen", "Rook", "Bishop", "Knight">>

add_promotion_moves(from, to) ==
    [i \in 1..Len(PROMOTION_PIECES) |-> Move(from, to, Promotion(PROMOTION_PIECES[i]))]

add_step_move(state, piece, from, to) ==
    LET target == piece_at(state.board, to) IN
    IF target # NoPiece
    THEN IF target.color # piece.color THEN <<Move(from, to, Normal)>> ELSE <<>>
    ELSE <<Move(from, to, Normal)>>

\* pawn_push_moves without the double push from the start rank.
pawn_push_moves_single_step(state, piece, from) ==
    LET dir == IF piece.color = White THEN 1 ELSE -1
        last_rank == IF piece.color = White THEN 7 ELSE 0
        to == <<from[1], from[2] + dir>>
    IN  IF in_bounds(to[1], to[2]) /\ piece_at(state.board, to) = NoPiece
        THEN IF to[2] = last_rank
             THEN add_promotion_moves(from, to)
             ELSE <<Move(from, to, Normal)>>
        ELSE <<>>

pawn_push_moves(state, piece, from) ==
    LET dir == IF piece.color = White THEN 1 ELSE -1
        start_rank == IF piece.color = White THEN 1 ELSE 6
        last_rank == IF piece.color = White THEN 7 ELSE 0
        file == from[1]
        rank == from[2]
        one_rank == rank + dir
        to == <<file, one_rank>>
        two_rank == rank + dir * 2
        to_two == <<file, two_rank>>
    IN  IF in_bounds(file, one_rank) /\ piece_at(state.board, to) = NoPiece
        THEN IF to[2] = last_rank
             THEN add_promotion_moves(from, to)
             ELSE <<Move(from, to, Normal)>> \o
                  (IF from[2] = start_rank /\ in_bounds(file, two_rank)
                      /\ piece_at(state.board, to_two) = NoPiece
                   THEN <<Move(from, to_two, Normal)>>
                   ELSE <<>>)
        ELSE <<>>

\* pawn_capture_moves without the promotion expansion of a capture onto the last rank.
pawn_capture_moves_never_promoting(state, piece, from, df) ==
    LET dir == IF piece.color = White THEN 1 ELSE -1
        nf == from[1] + df
        nr == from[2] + dir
        to == <<nf, nr>>
    IN  IF ~in_bounds(nf, nr) THEN <<>>
        ELSE LET target == piece_at(state.board, to) IN
             IF target # NoPiece /\ target.color # piece.color
             THEN <<Move(from, to, Normal)>>
             ELSE <<>>

pawn_capture_moves(state, piece, from, df) ==
    LET dir == IF piece.color = White THEN 1 ELSE -1
        last_rank == IF piece.color = White THEN 7 ELSE 0
        nf == from[1] + df
        nr == from[2] + dir
        to == <<nf, nr>>
    IN  IF ~in_bounds(nf, nr) THEN <<>>
        ELSE LET target == piece_at(state.board, to) IN
             IF target # NoPiece /\ target.color # piece.color
             THEN IF to[2] = last_rank
                  THEN add_promotion_moves(from, to)
                  ELSE <<Move(from, to, Normal)>>
             ELSE <<>>

Abs(x) == IF x < 0 THEN -x ELSE x

pawn_en_passant_moves(state, piece, from) ==
    LET dir == IF piece.color = White THEN 1 ELSE -1
        ep == state.en_passant
    IN  IF ep # NoSquare /\ ep[2] = from[2] + dir /\ Abs(ep[1] - from[1]) = 1
        THEN <<Move(from, ep, EnPassant)>>
        ELSE <<>>

gen_pawn_moves(state, from) ==
    LET piece == piece_at(state.board, from) IN
    pawn_push_moves(state, piece, from)
    \o pawn_capture_moves(state, piece, from, -1)
    \o pawn_capture_moves(state, piece, from, 1)
    \o pawn_en_passant_moves(state, piece, from)

gen_knight_moves(state, from) ==
    LET piece == piece_at(state.board, from) IN
    Flatten([i \in 1..Len(KNIGHT_DIRS) |->
        LET nf == from[1] + KNIGHT_DIRS[i][1]
            nr == from[2] + KNIGHT_DIRS[i][2]
        IN  IF ~in_bounds(nf, nr) THEN <<>>
            ELSE add_step_move(state, piece, from, <<nf, nr>>)])

RECURSIVE slide(_, _, _, _, _, _, _)
slide(state, piece, from, nf, nr, df, dr) ==
    IF ~in_bounds(nf, nr) THEN <<>>
    ELSE LET to == <<nf, nr>>
             target == piece_at(state.board, to)
         IN  IF target # NoPiece
             THEN IF target.color # piece.color THEN <<Move(from, to, Normal)>> ELSE <<>>
             ELSE <<Move(from, to, Normal)>>
                  \o slide(state, piece, from, nf + df, nr + dr, df, dr)

gen_slider_moves(state, from, dirs) ==
    LET piece == piece_at(state.board, from) IN
    Flatten([i \in 1..Len(dirs) |->
        slide(state, piece, from, from[1] + dirs[i][1], from[2] + dirs[i][2],
              dirs[i][1], dirs[i][2])])

castle_moves_b_file_unchecked(state, piece, from) ==
    LET rook == Piece(piece.color, "Rook")
        rank == IF piece.color = White THEN 0 ELSE 7
        kingside == IF piece.color = White THEN state.castling.white_kingside
                    ELSE state.castling.black_kingside
        queenside == IF piece.color = White THEN state.castling.white_queenside
                     ELSE state.castling.black_queenside
    IN  (IF from = <<4, rank>> /\ kingside
            /\ piece_at(state.board, <<5, rank>>) = NoPiece
            /\ piece_at(state.board, <<6, rank>>) = NoPiece
            /\ piece_at(state.board, <<7, rank>>) = rook
         THEN <<Move(from, <<6, rank>>, CastleKingside)>> ELSE <<>>)
        \o
        (IF from = <<4, rank>> /\ queenside
            /\ piece_at(state.board, <<2, rank>>) = NoPiece
            /\ piece_at(state.board, <<3, rank>>) = NoPiece
            /\ piece_at(state.board, <<0, rank>>) = rook
         THEN <<Move(from, <<2, rank>>, CastleQueenside)>> ELSE <<>>)
castle_moves(state, piece, from) ==
    LET rook == Piece(piece.color, "Rook")
        rank == IF piece.color = White THEN 0 ELSE 7
        kingside == IF piece.color = White THEN state.castling.white_kingside
                    ELSE state.castling.black_kingside
        queenside == IF piece.color = White THEN state.castling.white_queenside
                     ELSE state.castling.black_queenside
    IN  (IF from = <<4, rank>> /\ kingside
            /\ piece_at(state.board, <<5, rank>>) = NoPiece
            /\ piece_at(state.board, <<6, rank>>) = NoPiece
            /\ piece_at(state.board, <<7, rank>>) = rook
         THEN <<Move(from, <<6, rank>>, CastleKingside)>> ELSE <<>>)
        \o
        (IF from = <<4, rank>> /\ queenside
            /\ piece_at(state.board, <<1, rank>>) = NoPiece
            /\ piece_at(state.board, <<2, rank>>) = NoPiece
            /\ piece_at(state.board, <<3, rank>>) = NoPiece
            /\ piece_at(state.board, <<0, rank>>) = rook
         THEN <<Move(from, <<2, rank>>, CastleQueenside)>> ELSE <<>>)

gen_king_moves(state, from) ==
    LET piece == piece_at(state.board, from) IN
    Flatten([i \in 1..Len(KING_DIRS) |->
        LET nf == from[1] + KING_DIRS[i][1]
            nr == from[2] + KING_DIRS[i][2]
        IN  IF ~in_bounds(nf, nr) THEN <<>>
            ELSE add_step_move(state, piece, from, <<nf, nr>>)])
    \o castle_moves(state, piece, from)

gen_piece_moves(state, from) ==
    LET piece == piece_at(state.board, from) IN
    IF piece = NoPiece \/ piece.color # state.side_to_move THEN <<>>
    ELSE CASE piece.kind = "Pawn" -> gen_pawn_moves(state, from)
           [] piece.kind = "Knight" -> gen_knight_moves(state, from)
           [] piece.kind = "Bishop" -> gen_slider_moves(state, from, BISHOP_DIRS)
           [] piece.kind = "Rook" -> gen_slider_moves(state, from, ROOK_DIRS)
           [] piece.kind = "Queen" -> gen_slider_moves(state, from, QUEEN_DIRS)
           [] piece.kind = "King" -> gen_king_moves(state, from)

generate_candidates(state) ==
    Flatten([i \in 1..64 |-> gen_piece_moves(state, <<(i - 1) % 8, (i - 1) \div 8>>)])

(***************************************************************************)
(* rules.rs: the attack oracle                                             *)
(***************************************************************************)
step_attacked(state, square, by_color, dirs, kind) ==
    \E i \in 1..Len(dirs) :
        LET nf == square[1] + dirs[i][1]
            nr == square[2] + dirs[i][2]
        IN  in_bounds(nf, nr) /\ piece_at(state.board, <<nf, nr>>) = Piece(by_color, kind)

\* pawn_attacked looking for the pawn on the rank ahead of it.
pawn_attacked_from_ahead(state, square, by_color) ==
    LET pawn_dir == IF by_color = White THEN 1 ELSE -1 IN
    \E df \in {-1, 1} :
        LET nf == square[1] + df
            nr == square[2] + pawn_dir
        IN  in_bounds(nf, nr) /\ piece_at(state.board, <<nf, nr>>) = Piece(by_color, "Pawn")

pawn_attacked(state, square, by_color) ==
    LET pawn_dir == IF by_color = White THEN -1 ELSE 1 IN
    \E df \in {-1, 1} :
        LET nf == square[1] + df
            nr == square[2] + pawn_dir
        IN  in_bounds(nf, nr) /\ piece_at(state.board, <<nf, nr>>) = Piece(by_color, "Pawn")

\* One ray of diagonal_attacked / orthogonal_attacked: walk from (nf, nr) until a
\* piece is met; attacked when it is one of by_color's pieces of the given kinds.
RECURSIVE ray_attacked(_, _, _, _, _, _, _)
ray_attacked(state, nf, nr, df, dr, by_color, kinds) ==
    IF ~in_bounds(nf, nr) THEN FALSE
    ELSE LET piece == piece_at(state.board, <<nf, nr>>) IN
         IF piece # NoPiece
         THEN piece.color = by_color /\ piece.kind \in kinds
         ELSE ray_attacked(state, nf + df, nr + dr, df, dr, by_color, kinds)

diagonal_attacked(state, square, by_color) ==
    \E i \in 1..Len(BISHOP_DIRS) :
        ray_attacked(state, square[1] + BISHOP_DIRS[i][1], square[2] + BISHOP_DIRS[i][2],
                     BISHOP_DIRS[i][1], BISHOP_DIRS[i][2], by_color, {"Bishop", "Queen"})

orthogonal_attacked(state, square, by_color) ==
    \E i \in 1..Len(ROOK_DIRS) :
        ray_attacked(state, square[1] + ROOK_DIRS[i][1], square[2] + ROOK_DIRS[i][2],
                     ROOK_DIRS[i][1], ROOK_DIRS[i][2], by_color, {"Rook", "Queen"})

is_square_attacked(state, square, by_color) ==
    \/ pawn_attacked(state, square, by_color)
    \/ step_attacked(state, square, by_color, KNIGHT_DIRS, "Knight")
    \/ step_attacked(state, square, by_color, KING_DIRS, "King")
    \/ diagonal_attacked(state, square, by_color)
    \/ orthogonal_attacked(state, square, by_color)

\* The first square, rank by rank and file by file, holding color's king.
find_king(board, color) ==
    LET found == {i \in 0..63 : board[(i \div 8) + 1][(i % 8) + 1] = Piece(color, "King")} IN
    IF found = {} THEN NoSquare
    ELSE LET i == CHOOSE j \in found : \A k \in found : j <= k IN <<i % 8, i \div 8>>

\* is_in_check panics ("missing king") when find_king returns None.
is_in_check_panics(state, color) == find_king(state.board, color) = NoSquare

is_in_check(state, color) ==
    LET king_sq == find_king(state.board, color) IN
    king_sq # NoSquare /\ is_square_attacked(state, king_sq, opposite(color))

(***************************************************************************)
(* rules.rs: make-move                                                     *)
(***************************************************************************)
is_castle(kind) == kind \in {CastleKingside, CastleQueenside}

\* clear_castling_rights written as a struct update from CastlingRights::new(),
\* which clears the mover's rights and restores the other side's.
clear_castling_rights_resetting_other(castling, color) ==
    IF color = White
    THEN [CastlingRights_new EXCEPT !.white_kingside = FALSE, !.white_queenside = FALSE]
    ELSE [CastlingRights_new EXCEPT !.black_kingside = FALSE, !.black_queenside = FALSE]

clear_castling_rights(castling, color) ==
    IF color = White
    THEN [castling EXCEPT !.white_kingside = FALSE, !.white_queenside = FALSE]
    ELSE [castling EXCEPT !.black_kingside = FALSE, !.black_queenside = FALSE]

\* The match on (piece.color, square) shared by both rook updates.
clear_corner_right(castling, color, square) ==
    CASE color = White /\ square = <<0, 0>> -> [castling EXCEPT !.white_queenside = FALSE]
      [] color = White /\ square = <<7, 0>> -> [castling EXCEPT !.white_kingside = FALSE]
      [] color = Black /\ square = <<0, 7>> -> [castling EXCEPT !.black_queenside = FALSE]
      [] color = Black /\ square = <<7, 7>> -> [castling EXCEPT !.black_kingside = FALSE]
      [] OTHER -> castling

update_castling_rights_on_move(castling, piece, from) ==
    CASE piece.kind = "King" -> clear_castling_rights(castling, piece.color)
      [] piece.kind = "Rook" -> clear_corner_right(castling, piece.color, from)
      [] OTHER -> castling

update_castling_rights_on_capture(castling, square, piece) ==
    IF piece.kind # "Rook" THEN castling
    ELSE clear_corner_right(castling, piece.color, square)

castle_rank(color) == IF color = White THEN 0 ELSE 7

castle_rook_from(kind, color) ==
    <<IF kind = CastleKingside THEN 7 ELSE 0, castle_rank(color)>>

castle_rook_to(kind, color) ==
    <<IF kind = CastleKingside THEN 5 ELSE 3, castle_rank(color)>>

castle_king_to(kind, color) ==
    <<IF kind = CastleKingside THEN 6 ELSE 2, castle_rank(color)>>

\* apply_castle without set_piece(from, None): the king is copied, not moved.
apply_castle_king_stays(board, mv, moving_piece) ==
    LET rook_from == castle_rook_from(mv.kind, moving_piece.color)
        rook == piece_at(board, rook_from)
        b2 == set_piece(board, castle_king_to(mv.kind, moving_piece.color), moving_piece)
        b3 == set_piece(b2, rook_from, NoPiece)
    IN  set_piece(b3, castle_rook_to(mv.kind, moving_piece.color), rook)

\* apply_castle without set_piece(rook_from, None): the rook is copied.
apply_castle_rook_copied(board, mv, moving_piece) ==
    LET rook_from == castle_rook_from(mv.kind, moving_piece.color)
        rook == piece_at(board, rook_from)
        b1 == set_piece(board, mv.from, NoPiece)
        b2 == set_piece(b1, castle_king_to(mv.kind, moving_piece.color), moving_piece)
    IN  set_piece(b2, castle_rook_to(mv.kind, moving_piece.color), rook)

apply_castle(board, mv, moving_piece) ==
    LET rook_from == castle_rook_from(mv.kind, moving_piece.color)
        rook == piece_at(board, rook_from)
        b1 == set_piece(board, mv.from, NoPiece)
        b2 == set_piece(b1, castle_king_to(mv.kind, moving_piece.color), moving_piece)
        b3 == set_piece(b2, rook_from, NoPiece)
    IN  set_piece(b3, castle_rook_to(mv.kind, moving_piece.color), rook)

\* apply_en_passant without the removal of the captured pawn.
apply_en_passant_pawn_stays(board, mv, moving_piece) ==
    set_piece(set_piece(board, mv.from, NoPiece), mv.to, moving_piece)

apply_en_passant(board, mv, moving_piece) ==
    LET capture_sq == <<mv.to[1], mv.from[2]>>
        b1 == set_piece(board, capture_sq, NoPiece)
        b2 == set_piece(b1, mv.from, NoPiece)
    IN  set_piece(b2, mv.to, moving_piece)

apply_promotion(board, mv, moving_piece) ==
    LET promoted == Piece(moving_piece.color, mv.kind.promo) IN
    set_piece(set_piece(board, mv.from, NoPiece), mv.to, promoted)

apply_normal(board, mv, moving_piece) ==
    set_piece(set_piece(board, mv.from, NoPiece), mv.to, moving_piece)

\* captured_square with the Promotion arm recording no capture.
captured_square_unrecorded_on_promotion(board, mv) ==
    CASE is_castle(mv.kind) -> NoSquare
      [] mv.kind = EnPassant -> <<mv.to[1], mv.from[2]>>
      [] mv.kind.tag = "Promotion" -> NoSquare
      [] OTHER -> IF piece_at(board, mv.to) # NoPiece THEN mv.to ELSE NoSquare

\* captured_square and captured_piece after the match on mv.kind
captured_square(board, mv) ==
    CASE is_castle(mv.kind) -> NoSquare
      [] mv.kind = EnPassant -> <<mv.to[1], mv.from[2]>>
      [] OTHER -> IF piece_at(board, mv.to) # NoPiece THEN mv.to ELSE NoSquare

captured_piece(board, mv) ==
    LET sq == captured_square(board, mv) IN
    IF sq = NoSquare THEN NoPiece ELSE piece_at(board, sq)

\* en_passant_after without the test that the moving piece is a pawn.
en_passant_after_any_piece(mv, moving_piece) ==
    IF mv.kind = Normal
       /\ mv.from[1] = mv.to[1] /\ Abs(mv.to[2] - mv.from[2]) = 2
    THEN <<mv.from[1], (mv.to[2] + mv.from[2]) \div 2>>
    ELSE NoSquare

\* en_passant_after with the passed-over rank taken as from.rank + 1 for both colours.
en_passant_after_white_direction(mv, moving_piece) ==
    IF moving_piece.kind = "Pawn" /\ mv.kind = Normal
       /\ mv.from[1] = mv.to[1] /\ Abs(mv.to[2] - mv.from[2]) = 2
    THEN <<mv.from[1], mv.from[2] + 1>>
    ELSE NoSquare

\* The en-passant target after the move: set only by a pawn's Normal move of two
\* ranks on its file.
en_passant_after(mv, moving_piece) ==
    IF moving_piece.kind = "Pawn" /\ mv.kind = Normal
       /\ mv.from[1] = mv.to[1] /\ Abs(mv.to[2] - mv.from[2]) = 2
    THEN <<mv.from[1], (mv.to[2] + mv.from[2]) \div 2>>
    ELSE NoSquare

\* expect("missing piece") and expect("missing rook")
apply_move_panics(state, mv) ==
    LET moving_piece == piece_at(state.board, mv.from) IN
    \/ moving_piece = NoPiece
    \/ /\ is_castle(mv.kind)
       /\ piece_at(state.board, castle_rook_from(mv.kind, moving_piece.color)) = NoPiece

apply_move_unchecked(state, mv) ==
    LET moving_piece == piece_at(state.board, mv.from)
        board == CASE is_castle(mv.kind) -> apply_castle(state.board, mv, moving_piece)
                   [] mv.kind = EnPassant -> apply_en_passant(state.board, mv, moving_piece)
                   [] mv.kind.tag = "Promotion" -> apply_promotion(state.board, mv, moving_piece)
                   [] OTHER -> apply_normal(state.board, mv, moving_piece)
        c1 == update_castling_rights_on_move(state.castling, moving_piece, mv.from)
        csq == captured_square(state.board, mv)
        cpc == captured_piece(state.board, mv)
        c2 == IF csq # NoSquare /\ cpc # NoPiece
              THEN update_castling_rights_on_capture(c1, csq, cpc)
              ELSE c1
    IN  [state EXCEPT !.board = board,
                      !.castling = c2,
                      !.en_passant = en_passant_after(mv, moving_piece),
                      !.side_to_move = opposite(state.side_to_move)]

(***************************************************************************)
(* rules.rs: the legality filter                                           *)
(***************************************************************************)
\* king_passes_through_check testing the b- and c-file squares for a queenside
\* castle (the squares that must be empty) instead of the d- and c-file squares.
king_passes_through_check_b_file(state, mv) ==
    LET mover == state.side_to_move
        rank == IF mover = White THEN 0 ELSE 7
        opponent == opposite(mover)
    IN  CASE mv.kind = CastleKingside ->
                \/ is_square_attacked(state, <<5, rank>>, opponent)
                \/ is_square_attacked(state, <<6, rank>>, opponent)
          [] mv.kind = CastleQueenside ->
                \/ is_square_attacked(state, <<1, rank>>, opponent)
                \/ is_square_attacked(state, <<2, rank>>, opponent)
          [] OTHER -> FALSE

king_passes_through_check(state, mv) ==
    LET mover == state.side_to_move
        rank == IF mover = White THEN 0 ELSE 7
        opponent == opposite(mover)
    IN  CASE mv.kind = CastleKingside ->
                \/ is_square_attacked(state, <<5, rank>>, opponent)
                \/ is_square_attacked(state, <<6, rank>>, opponent)
          [] mv.kind = CastleQueenside ->
                \/ is_square_attacked(state, <<3, rank>>, opponent)
                \/ is_square_attacked(state, <<2, rank>>, opponent)
          [] OTHER -> FALSE

\* is_move_legal without the check of the position after the move.
is_move_legal_unfiltered(state, mv) ==
    LET mover == state.side_to_move IN
    ~(is_castle(mv.kind)
      /\ (is_in_check(state, mover) \/ king_passes_through_check(state, mv)))

is_move_legal(state, mv) ==
    LET mover == state.side_to_move IN
    IF is_castle(mv.kind)
       /\ (is_in_check(state, mover) \/ king_passes_through_check(state, mv))
    THEN FALSE
    ELSE ~is_in_check(apply_move_unchecked(state, mv), mover)

\* The panics is_move_legal can end in, in the order the code meets them.
is_move_legal_panics(state, mv) ==
    LET mover == state.side_to_move IN
    IF is_castle(mv.kind) /\ is_in_check_panics(state, mover) THEN TRUE
    ELSE IF is_castle(mv.kind)
            /\ (is_in_check(state, mover) \/ king_passes_through_check(state, mv))
         THEN FALSE
         ELSE \/ apply_move_panics(state, mv)
              \/ is_in_check_panics(apply_move_unchecked(state, mv), mover)

legal_moves(state) ==
    SelectSeq(generate_candidates(state), LAMBDA mv : is_move_legal(state, mv))

legal_moves_panics(state) ==
    \E mv \in Range(generate_candidates(state)) : is_move_legal_panics(state, mv)

is_checkmate(state) ==
    is_in_check(state, state.side_to_move) /\ legal_moves(state) = <<>>

is_stalemate(state) ==
    ~is_in_check(state, state.side_to_move) /\ legal_moves(state) = <<>>

(***************************************************************************)
(* game.rs: the Game facade                                                *)
(***************************************************************************)
\* Game::make_move: Ok(()) with the move applied, or Err(IllegalMove) with the
\* position as it was; a panic of is_move_legal ends the call with nothing done.
make_move_result(state, mv) ==
    IF is_move_legal_panics(state, mv) THEN "panic"
    ELSE IF is_move_legal(state, mv) THEN "Ok" ELSE "IllegalMove"

make_move(state, mv) ==
    IF make_move_result(state, mv) = "Ok" THEN apply_move_unchecked(state, mv) ELSE state

(***************************************************************************)
(* main.rs: move tokens of a `position ... moves` command.  A token is its *)
(* two parsed squares and its parsed promotion letter ("None" without one).*)
(***************************************************************************)
NoMove == Move(NoSquare, NoSquare, [tag |-> "None", promo |-> "None"])

Token(from, to, promo) == [from |-> from, to |-> to, promo |-> promo]

\* T(4, 1, 4, 3) is the token e2e4.
T(ff, fr, tf, tr) == Token(<<ff, fr>>, <<tf, tr>>, "None")

token_matches(token, mv) ==
    /\ mv.from = token.from
    /\ mv.to = token.to
    /\ IF token.promo # "None"
       THEN mv.kind = Promotion(token.promo)
       ELSE mv.kind.tag # "Promotion"

parse_uci_move(token, legal) ==
    LET matching == SelectSeq(legal, LAMBDA mv : token_matches(token, mv)) IN
    IF matching = <<>> THEN NoMove ELSE Head(matching)

(***************************************************************************)
(* The move lists the controller is given: `position startpos moves ...`   *)
(* lines, each a legal play line from the standard opening position.       *)
(***************************************************************************)
Lines == <<
    \* e2e4 e7e5 g1f3 g8f6 f1e2 f8e7 e1g1 e8g8: both sides castle kingside
    << T(4,1,4,3), T(4,6,4,4), T(6,0,5,2), T(6,7,5,5), T(5,0,4,1), T(5,7,4,6),
       T(4,0,6,0), T(4,7,6,7) >>,
    \* d2d4 d7d5 b1c3 b8c6 c1f4 c8f5 d1d2 d8d7 e1c1 e8c8: both castle queenside
    << T(3,1,3,3), T(3,6,3,4), T(1,0,2,2), T(1,7,2,5), T(2,0,5,3), T(2,7,5,4),
       T(3,0,3,1), T(3,7,3,6), T(4,0,2,0), T(4,7,2,7) >>,
    \* b2b3 g7g6 c1b2 a7a6 b2h8: a bishop takes the rook on its corner
    << T(1,1,1,2), T(6,6,6,5), T(2,0,1,1), T(0,6,0,5), T(1,1,7,7) >>,
    \* h2h4 g7g5 h4g5 a7a6 g5g6 a6a5 g6g7 a5a4 g7h8q: a pawn promotes taking the rook
    << T(7,1,7,3), T(6,6,6,4), T(7,3,6,4), T(0,6,0,5), T(6,4,6,5), T(0,5,0,4),
       T(6,5,6,6), T(0,4,0,3), Token(<<6,6>>, <<7,7>>, "Queen") >>,
    \* e2e4 a7a6 e4e5 d7d5 e5d6: White takes en passant
    << T(4,1,4,3), T(0,6,0,5), T(4,3,4,4), T(3,6,3,4), T(4,4,3,5) >>,
    \* a2a3 e7e5 a3a4 e5e4 d2d4 e4d3: Black takes en passant
    << T(0,1,0,2), T(4,6,4,4), T(0,2,0,3), T(4,4,4,3), T(3,1,3,3), T(4,3,3,2) >>,
    \* e2e4 d7d5 e4d5 d8d5 d2d4 e7e5 d4e5 d5e6 a2a3 f7f5: the e5 pawn is pinned
    \* on the e-file, so e5f6 en passant would expose the king
    << T(4,1,4,3), T(3,6,3,4), T(4,3,3,4), T(3,7,3,4), T(3,1,3,3), T(4,6,4,4),
       T(3,3,4,4), T(3,4,4,5), T(0,1,0,2), T(5,6,5,4) >>,
    \* e2e4 e7e5 e1e2 e8e7 e2e1 e7e8: both kings leave home and return
    << T(4,1,4,3), T(4,6,4,4), T(4,0,4,1), T(4,7,4,6), T(4,1,4,0), T(4,6,4,7) >>,
    \* a2a4 h7h5 a1a3 h8h6 a3a1 h6h8: both rooks leave their corner and return
    << T(0,1,0,3), T(7,6,7,4), T(0,0,0,2), T(7,7,7,5), T(0,2,0,0), T(7,5,7,7) >>,
    \* e2e4 e7e5 d1h5 b8c6 f1c4 g8f6 h5f7: the f7 pawn is pinned, then mate
    << T(4,1,4,3), T(4,6,4,4), T(3,0,7,4), T(1,7,2,5), T(5,0,2,3), T(6,7,5,5),
       T(7,4,5,6) >>
>>

\* Moves off the given line that are explored at each of its positions.
MaxFree == 1

VARIABLES
    state,    \* Game.state, the live position
    prev,     \* the position before the last make_move call
    last,     \* the move of the last make_move call
    result,   \* its result: "Ok", "IllegalMove" or "panic" ("None" before any)
    line,     \* the move list being fed (an index of Lines, 0 for none)
    idx,      \* how many of its tokens have been consumed
    free,     \* how many moves were made off the line
    stdin,    \* the input lines written to the process and not yet read
    seen,     \* the line main has read last, in a tuple (empty before the first)
    reads,    \* how many lines main has read
    stdout,   \* the lines main printed in the loop turn of the last line it read
    proc,     \* the process: "running", "exited" (quit) or "panicked"
    search    \* the call of search_ab or Engine::go under way, its locals and results

vars ==
    <<state, prev, last, result, line, idx, free, stdin, seen, reads, stdout, proc, search>>

\* No search has been called.
no_search == [phase |-> "none"]

\* A process that has read and printed nothing.
fresh_process ==
    /\ stdin = <<>>
    /\ seen = <<>>
    /\ reads = 0
    /\ stdout = <<>>
    /\ proc = "running"

Init ==
    /\ state = GameState_new
    /\ prev = GameState_new
    /\ last = NoMove
    /\ result = "None"
    /\ line \in 1..Len(Lines)
    /\ idx = 0
    /\ free = 0
    /\ fresh_process
    /\ search = no_search

\* The call self.game.make_move(mv) and its bookkeeping.
CallMakeMove(mv) ==
    /\ prev' = state
    /\ last' = mv
    /\ result' = make_move_result(state, mv)
    /\ state' = make_move(state, mv)
    /\ UNCHANGED <<stdin, seen, reads, stdout, proc, search>>

\* One turn of handle_position's loop over the move tokens: the token is resolved
\* against the legal moves and applied; a token that resolves to nothing ends it.
LineMove ==
    /\ free = 0
    /\ idx < Len(Lines[line])
    /\ result \in {"None", "Ok"}
    /\ LET mv == parse_uci_move(Lines[line][idx + 1], legal_moves(state)) IN
       /\ mv # NoMove
       /\ CallMakeMove(mv)
    /\ idx' = idx + 1
    /\ UNCHANGED <<line, free>>

\* The same turn for a token naming any other legal move of the position.
FreeMove ==
    /\ free < MaxFree
    /\ result \in {"None", "Ok"}
    /\ \E mv \in Range(legal_moves(state)) : CallMakeMove(mv)
    /\ free' = free + 1
    /\ UNCHANGED <<line, idx>>

Next == LineMove \/ FreeMove

Spec == Init /\ [][Next]_vars

\* Every line is legal play to its end.
LinesPlayed == \E l \in 1..Len(Lines) : line = l /\ idx = Len(Lines[l])

(***************************************************************************)
(* The library entry point: Game::make_move is public and takes any Move   *)
(* value, not only those the controller resolves against the legal moves.  *)
(***************************************************************************)
\* Squares the Move values handed to make_move are drawn from:
\* a1 e1 g1 h1, a2 e2, b3, e4, a5 e5, d6, a7 g7, e8 h8.
ApiSquares ==
    { <<0, 0>>, <<4, 0>>, <<6, 0>>, <<7, 0>>, <<0, 1>>, <<4, 1>>, <<1, 2>>, <<4, 3>>,
      <<0, 4>>, <<4, 4>>, <<3, 5>>, <<0, 6>>, <<6, 6>>, <<4, 7>>, <<7, 7>> }

ApiKinds ==
    { Normal, EnPassant, CastleKingside, CastleQueenside,
      Promotion("Queen"), Promotion("Knight"), Promotion("King") }

ApiMoves == { Move(from, to, kind) : from \in ApiSquares, to \in ApiSquares, kind \in ApiKinds }

\* Calls of make_move with arbitrary Move values that are explored.
MaxApiCalls == 1

ApiMakeMove ==
    /\ free < MaxApiCalls
    /\ result \in {"None", "Ok"}
    /\ \E mv \in ApiMoves \cup Range(generate_candidates(state)) : CallMakeMove(mv)
    /\ free' = free + 1
    /\ UNCHANGED <<line, idx>>

NextApi == LineMove \/ ApiMakeMove

SpecApi == Init /\ [][NextApi]_vars

(***************************************************************************)
(* Positions set up square by square, as the tests of rules.rs and a      *)
(* `position fen` command do: a few kings, rooks and pawns, and one more   *)
(* piece on a free square of the ranks listed below.                       *)
(***************************************************************************)
empty_state(side) ==
    [board |-> <<empty_rank, empty_rank, empty_rank, empty_rank,
                 empty_rank, empty_rank, empty_rank, empty_rank>>,
     side_to_move |-> side,
     castling |-> [white_kingside |-> FALSE, white_queenside |-> FALSE,
                   black_kingside |-> FALSE, black_queenside |-> FALSE],
     en_passant |-> NoSquare,
     white_king |-> <<0, 0>>,
     black_king |-> <<0, 0>>]

\* Places a piece, recording a king's square as from_fen does.
put(st, sq, piece) ==
    [st EXCEPT !.board = set_piece(st.board, sq, piece),
               !.white_king = IF piece = Piece(White, "King") THEN sq ELSE @,
               !.black_king = IF piece = Piece(Black, "King") THEN sq ELSE @]

RECURSIVE put_all(_, _, _)
put_all(st, placed, i) ==
    IF i > Len(placed) THEN st
    ELSE put_all(put(st, placed[i][1], placed[i][2]), placed, i + 1)

\* Both castles available to the side to move: king and rooks at home, the other
\* king on its home square.
castle_setup(side) ==
    LET home == IF side = White THEN 0 ELSE 7
        st == put_all(empty_state(side),
                      << <<<<4, home>>, Piece(side, "King")>>,
                         <<<<0, home>>, Piece(side, "Rook")>>,
                         <<<<7, home>>, Piece(side, "Rook")>>,
                         <<<<4, 7 - home>>, Piece(opposite(side), "King")>> >>, 1)
    IN  [st EXCEPT !.castling =
            IF side = White
            THEN [@ EXCEPT !.white_kingside = TRUE, !.white_queenside = TRUE]
            ELSE [@ EXCEPT !.black_kingside = TRUE, !.black_queenside = TRUE]]

\* The side to move has a pawn on the e-file beside an enemy pawn on the d-file
\* that has just made its double push; its king stands on king_sq.
en_passant_setup(side, king_sq) ==
    LET rank == IF side = White THEN 4 ELSE 3
        dir == IF side = White THEN 1 ELSE -1
        st == put_all(empty_state(side),
                      << <<king_sq, Piece(side, "King")>>,
                         <<<<4, rank>>, Piece(side, "Pawn")>>,
                         <<<<3, rank>>, Piece(opposite(side), "Pawn")>>,
                         <<<<7, IF side = White THEN 7 ELSE 0>>,
                           Piece(opposite(side), "King")>> >>, 1)
    IN  [st EXCEPT !.en_passant = <<3, rank + dir>>]

\* The side to move has a pawn one step from its last rank on `file`.
promotion_setup(side, file) ==
    put_all(empty_state(side),
            << <<<<4, IF side = White THEN 0 ELSE 7>>, Piece(side, "King")>>,
               <<<<4, IF side = White THEN 7 ELSE 0>>, Piece(opposite(side), "King")>>,
               <<<<file, IF side = White THEN 6 ELSE 1>>, Piece(side, "Pawn")>> >>, 1)

\* setup with one more piece on a free square.
with_extra(setup, piece, sq) == put(setup, sq, piece)

\* What a set-up position must satisfy to be one a game can show: the side that
\* is not to move is not in check, no pawn stands on a first or last rank, and
\* the squares a double push has just left and passed over are empty.
plausible(st) ==
    /\ ~is_in_check(st, opposite(st.side_to_move))
    /\ \A f \in 0..7, r \in {0, 7} : piece_at(st.board, <<f, r>>).kind # "Pawn"
    /\ st.en_passant # NoSquare =>
          LET ep == st.en_passant
              back == IF st.side_to_move = White THEN 1 ELSE -1
          IN  /\ piece_at(st.board, ep) = NoPiece
              /\ piece_at(st.board, <<ep[1], ep[2] + back>>) = NoPiece

\* The set-ups and, for each, the pieces the one more piece is drawn from.
castle_extras(side) ==
    { Piece(opposite(side), k) : k \in {"Pawn", "Knight", "Bishop", "Rook", "Queen"} }

en_passant_extras(side) ==
    { Piece(opposite(side), k) : k \in {"Bishop", "Rook"} }

promotion_extras(side) ==
    { Piece(opposite(side), k) : k \in {"Knight", "Rook"} } \cup {Piece(side, "Knight")}

\* Ranks are counted from the home rank of the side to move.
rel(side, r) == IF side = White THEN r ELSE 7 - r

\* The squares the king of an en-passant set-up stands on, for White: e1, a5.
EnPassantKingSquares == {<<4, 0>>, <<0, 4>>}

\* The files of the pawn of a promotion set-up: a and g.
PromotionFiles == {0, 6}

\* The ranks the one more piece stands on.
CastleExtraRanks == {0, 1, 7}
EnPassantExtraRanks == {4, 6, 7}
PromotionExtraRanks == {7}

InitSetup(setup, pieces, ranks) ==
    \E pc \in pieces, f \in 0..7, r \in ranks :
        LET sq == <<f, rel(setup.side_to_move, r)>> IN
        /\ piece_at(setup.board, sq) = NoPiece
        /\ plausible(with_extra(setup, pc, sq))
        /\ state = with_extra(setup, pc, sq)

InitPos ==
    /\ \/ \E side \in Colors :
              InitSetup(castle_setup(side), castle_extras(side), CastleExtraRanks)
       \/ \E side \in Colors, king_sq \in EnPassantKingSquares :
              InitSetup(en_passant_setup(side, <<king_sq[1], rel(side, king_sq[2])>>),
                        en_passant_extras(side), EnPassantExtraRanks)
       \/ \E side \in Colors, file \in PromotionFiles :
              InitSetup(promotion_setup(side, file), promotion_extras(side),
                        PromotionExtraRanks)
    /\ prev = state
    /\ last = NoMove
    /\ result = "None"
    /\ line = 0
    /\ idx = 0
    /\ free = 0
    /\ fresh_process
    /\ search = no_search

NextPos == FreeMove

SpecPos == InitPos /\ [][NextPos]_vars

(***************************************************************************)
(* main.rs: protocol text.  A word is the tuple of its characters; a line  *)
(* is the tuple of the words that trim and split_whitespace make of it.    *)
(***************************************************************************)
FILE_CHARS == <<"a", "b", "c", "d", "e", "f", "g", "h">>
RANK_CHARS == <<"1", "2", "3", "4", "5", "6", "7", "8">>
DIGIT_CHARS == <<"0", "1", "2", "3", "4", "5", "6", "7", "8", "9">>
LOWER_CHARS == <<"a", "b", "c", "d", "e", "f", "g", "h", "i", "j", "k", "l", "m",
                 "n", "o", "p", "q", "r", "s", "t", "u", "v", "w", "x", "y", "z">>
UPPER_CHARS == <<"A", "B", "C", "D", "E", "F", "G", "H", "I", "J", "K", "L", "M",
                 "N", "O", "P", "Q", "R", "S", "T", "U", "V", "W", "X", "Y", "Z">>

\* The position of c in chars, 0 when it is not there.
index_of(c, chars) ==
    IF \E i \in 1..Len(chars) : chars[i] = c
    THEN CHOOSE i \in 1..Len(chars) : chars[i] = c
    ELSE 0

is_uppercase(c) == index_of(c, UPPER_CHARS) # 0

to_ascii_lowercase(c) ==
    IF is_uppercase(c) THEN LOWER_CHARS[index_of(c, UPPER_CHARS)] ELSE c

starts_with(text, prefix) ==
    Len(text) >= Len(prefix) /\ SubSeq(text, 1, Len(prefix)) = prefix

parse_square(text) ==
    IF Len(text) # 2 THEN NoSquare
    ELSE IF index_of(text[1], FILE_CHARS) = 0 \/ index_of(text[2], RANK_CHARS) = 0
         THEN NoSquare
         ELSE <<index_of(text[1], FILE_CHARS) - 1, index_of(text[2], RANK_CHARS) - 1>>

\* "None" for a letter that names no promotion piece.
parse_promo(c) ==
    LET b == to_ascii_lowercase(c) IN
    CASE b = "q" -> "Queen"
      [] b = "r" -> "Rook"
      [] b = "b" -> "Bishop"
      [] b = "n" -> "Knight"
      [] OTHER -> "None"

NoToken == Token(NoSquare, NoSquare, "None")

\* The head of parse_uci_move: the length test, the two squares and the
\* promotion letter.  NoToken is the early return None.
parse_token(text) ==
    IF Len(text) < 4 \/ Len(text) > 5 THEN NoToken
    ELSE LET from == parse_square(SubSeq(text, 1, 2))
             to == parse_square(SubSeq(text, 3, 4))
         IN  IF from = NoSquare \/ to = NoSquare THEN NoToken
             ELSE IF Len(text) = 5
                  THEN IF parse_promo(text[5]) = "None" THEN NoToken
                       ELSE Token(from, to, parse_promo(text[5]))
                  ELSE Token(from, to, "None")

\* parse_uci_move on the text of a token.
parse_uci_move_text(text, legal) ==
    IF parse_token(text) = NoToken THEN NoMove
    ELSE parse_uci_move(parse_token(text), legal)

push_square(sq) == <<FILE_CHARS[sq[1] + 1], RANK_CHARS[sq[2] + 1]>>

\* to_uci without the promotion letter.
to_uci_without_promotion_letter(mv) ==
    push_square(mv.from) \o push_square(mv.to)

to_uci(mv) ==
    push_square(mv.from) \o push_square(mv.to) \o
    (IF mv.kind.tag = "Promotion"
     THEN <<CASE mv.kind.promo = "Queen" -> "q"
              [] mv.kind.promo = "Rook" -> "r"
              [] mv.kind.promo = "Bishop" -> "b"
              [] mv.kind.promo = "Knight" -> "n"
              [] mv.kind.promo = "King" -> "k"
              [] mv.kind.promo = "Pawn" -> "p">>
     ELSE <<>>)

(***************************************************************************)
(* state.rs: GameState::from_fen.  The text is the tuple of its fields     *)
(* (split_whitespace), each a word.  overflow_checks tells the build:      *)
(* with them (debug) `7 - rank_idx` panics below zero, without them        *)
(* (release) it wraps to a row no board has.                               *)
(***************************************************************************)
fen_piece_kind(c) ==
    LET l == to_ascii_lowercase(c) IN
    CASE l = "p" -> "Pawn"
      [] l = "n" -> "Knight"
      [] l = "b" -> "Bishop"
      [] l = "r" -> "Rook"
      [] l = "q" -> "Queen"
      [] l = "k" -> "King"
      [] OTHER -> "None"

\* The loop over the placement field, character i onward, as far as the board
\* goes: the board at its end, <<"None">> at an unknown piece letter, <<"panic">>
\* where the code panics.
RECURSIVE fen_board(_, _, _, _, _, _)
fen_board(chars, i, rank_idx, file, board, overflow_checks) ==
    IF i > Len(chars) THEN board
    ELSE LET c == chars[i] IN
         IF c = "/"
         THEN IF rank_idx + 1 > 7 /\ overflow_checks
              THEN <<"panic">>
              ELSE fen_board(chars, i + 1, rank_idx + 1, 0, board, overflow_checks)
         ELSE IF index_of(c, DIGIT_CHARS) # 0
         THEN fen_board(chars, i + 1, rank_idx, file + index_of(c, DIGIT_CHARS) - 1,
                        board, overflow_checks)
         ELSE IF fen_piece_kind(c) = "None" THEN <<"None">>
         ELSE IF rank_idx > 7 \/ file > 7 THEN <<"panic">>
         ELSE LET written == set_piece(board, <<file, 7 - rank_idx>>,
                                       Piece(IF is_uppercase(c) THEN White ELSE Black,
                                             fen_piece_kind(c)))
              \* (a board keeps its eight rows: the test only makes `written` a
              \* value before the loop goes on)
              IN  IF Len(written) = 8
                  THEN fen_board(chars, i + 1, rank_idx, file + 1, written, overflow_checks)
                  ELSE written

\* The same loop as far as white_king or black_king goes: the square of the
\* last king letter of that colour, (0, 0) without one.
RECURSIVE fen_king(_, _, _, _, _, _)
fen_king(chars, i, rank_idx, file, king_char, king) ==
    IF i > Len(chars) THEN king
    ELSE LET c == chars[i] IN
         IF c = "/" THEN fen_king(chars, i + 1, rank_idx + 1, 0, king_char, king)
         ELSE IF index_of(c, DIGIT_CHARS) # 0
         THEN fen_king(chars, i + 1, rank_idx, file + index_of(c, DIGIT_CHARS) - 1,
                       king_char, king)
         ELSE fen_king(chars, i + 1, rank_idx, file + 1, king_char,
                       IF c = king_char THEN <<file, 7 - rank_idx>> ELSE king)

fen_placement_of(fen, overflow_checks) ==
    fen_board(fen[1], 1, 0, 0,
              <<empty_rank, empty_rank, empty_rank, empty_rank,
                empty_rank, empty_rank, empty_rank, empty_rank>>,
              overflow_checks)

fen_field(fen, n) == IF Len(fen) >= n THEN fen[n] ELSE <<"-">>

fen_en_passant(ep_str) ==
    IF ep_str = <<"-">> \/ Len(ep_str) # 2 THEN NoSquare
    ELSE IF index_of(ep_str[1], FILE_CHARS) = 0 \/ index_of(ep_str[2], RANK_CHARS) = 0
         THEN NoSquare
         ELSE <<index_of(ep_str[1], FILE_CHARS) - 1, index_of(ep_str[2], RANK_CHARS) - 1>>

from_fen_panics(fen, overflow_checks) ==
    Len(fen) >= 1 /\ fen_placement_of(fen, overflow_checks) = <<"panic">>

\* Option<GameState> as a tuple: <<>> is None, <<st>> is Some(st).
from_fen(fen, overflow_checks) ==
    IF Len(fen) < 1 THEN <<>>
    ELSE LET board == fen_placement_of(fen, overflow_checks) IN
         IF board \in {<<"None">>, <<"panic">>} THEN <<>>
         ELSE IF Len(fen) < 2 \/ fen[2] \notin {<<"w">>, <<"b">>} THEN <<>>
         ELSE << [board |-> board,
                  side_to_move |-> IF fen[2] = <<"w">> THEN White ELSE Black,
                  castling |-> [white_kingside |-> "K" \in Range(fen_field(fen, 3)),
                                white_queenside |-> "Q" \in Range(fen_field(fen, 3)),
                                black_kingside |-> "k" \in Range(fen_field(fen, 3)),
                                black_queenside |-> "q" \in Range(fen_field(fen, 3))],
                  en_passant |-> fen_en_passant(fen_field(fen, 4)),
                  white_king |-> fen_king(fen[1], 1, 0, 0, "K", <<0, 0>>),
                  black_king |-> fen_king(fen[1], 1, 0, 0, "k", <<0, 0>>)] >>

(***************************************************************************)
(* engine.rs                                                               *)
(***************************************************************************)
\* Engine::reset: self.game = Game::new().
reset(st) == GameState_new

\* Engine::set_fen, which main.rs calls: the position from_fen parses replaces
\* the live one and the call returns true; None leaves it and returns false.
set_fen(st, fen, overflow_checks) ==
    IF from_fen(fen, overflow_checks) = <<>> THEN st
    ELSE from_fen(fen, overflow_checks)[1]

set_fen_ok(fen, overflow_checks) == from_fen(fen, overflow_checks) # <<>>

move_order_key(st, mv) ==
    LET is_promo == mv.kind.tag = "Promotion"
        is_capture == CASE mv.kind = EnPassant -> TRUE
                        [] is_castle(mv.kind) -> FALSE
                        [] OTHER -> piece_at(st.board, mv.to) # NoPiece
    IN  3 - (IF is_promo THEN 2 ELSE 0) - (IF is_capture THEN 1 ELSE 0)

ordered_candidates_captures_by_target(st) ==
    LET moves == generate_candidates(st)
        key(mv) == 3 - (IF mv.kind.tag = "Promotion" THEN 2 ELSE 0)
                     - (IF piece_at(st.board, mv.to) # NoPiece THEN 1 ELSE 0)
        keyed(k) == SelectSeq(moves, LAMBDA mv : key(mv) = k)
    IN  keyed(0) \o keyed(1) \o keyed(2) \o keyed(3)
\* sort_by_key is stable: the candidates of each key keep their order.
ordered_candidates(st) ==
    LET moves == generate_candidates(st)
        keyed(k) == SelectSeq(moves, LAMBDA mv : move_order_key(st, mv) = k)
    IN  keyed(0) \o keyed(1) \o keyed(2) \o keyed(3)

\* rules::try_apply_legal, which engine.rs calls: the position after mv on a
\* clone when mv passes the legality filter (<<next>>), None (<<>>) otherwise.
try_apply_legal(st, mv) ==
    IF is_move_legal(st, mv) THEN <<apply_move_unchecked(st, mv)>> ELSE <<>>

\* Engine::go panics where the legality filter does on one of the candidates.
go_panics(st) == legal_moves_panics(st)

\* What Engine::go can return, NoMove for None.  The first legal candidate is the
\* best move until a later legal candidate scores above it; the scores are
\* search_ab's, a search to fixed depth on clones, and any later legal candidate
\* is returned for some scores.
go_first_candidate(st) ==
    LET moves == ordered_candidates(st)
    IN  IF moves = <<>> THEN {NoMove} ELSE {moves[1]}
go(st) ==
    LET moves == ordered_candidates(st)
        passing == {i \in 1..Len(moves) : try_apply_legal(st, moves[i]) # <<>>}
    IN  IF passing = {} THEN {NoMove}
        ELSE {moves[i] : i \in passing}

state_after_go_playing_best(st, best) ==
    IF best = NoMove THEN st ELSE apply_move_unchecked(st, best)
\* The live position after Engine::go(&self) returned best.
state_after_go(st, best) == st

(***************************************************************************)
(* engine.rs: the search.  Scores are i32; the depth is a parameter here,  *)
(* Engine::go passes SEARCH_DEPTH - 1.                                      *)
(***************************************************************************)
MATE_SCORE == 1000000
INF == 1000000000
SEARCH_DEPTH == 7
I32_MIN == -2147483647 - 1

\* -x on i32 in a build without overflow checks.
neg(x) == IF x = I32_MIN THEN I32_MIN ELSE -x

piece_value(kind) ==
    CASE kind = "Pawn" -> 1
      [] kind = "Knight" -> 3
      [] kind = "Bishop" -> 3
      [] kind = "Rook" -> 5
      [] kind = "Queen" -> 9
      [] kind = "King" -> 0

\* The sum over the squares from square number n (rank * 8 + file) on.
RECURSIVE material_from(_, _, _)
material_from(st, n, score) ==
    IF n > 63 THEN score
    ELSE LET piece == piece_at(st.board, <<n % 8, n \div 8>>) IN
         IF piece = NoPiece THEN material_from(st, n + 1, score)
         ELSE IF piece.color = st.side_to_move
         THEN material_from(st, n + 1, score + piece_value(piece.kind))
         ELSE material_from(st, n + 1, score - piece_value(piece.kind))

eval_material_for_side_to_move(st) == material_from(st, 0, 0)

terminal_score_mate_without_check(st) == -MATE_SCORE
\* Checkmate is -MATE_SCORE for the side to move, stalemate is 0.
terminal_score(st) ==
    IF is_in_check(st, st.side_to_move) THEN -MATE_SCORE ELSE 0

\* search_ab and its loop over the ordered candidates from candidate i on, with
\* the loop's alpha, best and found_legal.
RECURSIVE search_ab(_, _, _, _)
RECURSIVE search_loop_old_best_on_cutoff(_, _, _, _, _, _, _, _)
search_loop_old_best_on_cutoff(st, moves, i, depth, alpha, beta, best, found_legal) ==
    IF i > Len(moves)
    THEN IF ~found_legal THEN terminal_score(st) ELSE best
    ELSE LET next == try_apply_legal(st, moves[i]) IN
         IF next = <<>>
         THEN search_loop_old_best_on_cutoff(st, moves, i + 1, depth, alpha, beta, best,
                                             found_legal)
         ELSE LET score == neg(search_ab(next[1], depth - 1, neg(beta), neg(alpha)))
                  best1 == IF score > best THEN score ELSE best
                  alpha1 == IF score > alpha THEN score ELSE alpha
              IN  IF alpha1 >= beta THEN best
                  ELSE search_loop_old_best_on_cutoff(st, moves, i + 1, depth, alpha1, beta,
                                                      best1, TRUE)
\* search_loop returning best, the i32::MIN it starts from, when no candidate
\* passed the filter.
RECURSIVE search_loop_without_terminal_score(_, _, _, _, _, _, _, _)
search_loop_without_terminal_score(st, moves, i, depth, alpha, beta, best, found_legal) ==
    IF i > Len(moves)
    THEN best
    ELSE LET next == try_apply_legal(st, moves[i]) IN
         IF next = <<>>
         THEN search_loop_without_terminal_score(st, moves, i + 1, depth, alpha, beta,
                                                 best, found_legal)
         ELSE LET score == neg(search_ab(next[1], depth - 1, neg(beta), neg(alpha)))
                  best1 == IF score > best THEN score ELSE best
                  alpha1 == IF score > alpha THEN score ELSE alpha
              IN  IF alpha1 >= beta THEN best1
                  ELSE search_loop_without_terminal_score(st, moves, i + 1, depth, alpha1,
                                                          beta, best1, TRUE)
RECURSIVE search_loop(_, _, _, _, _, _, _, _)
search_loop(st, moves, i, depth, alpha, beta, best, found_legal) ==
    IF i > Len(moves)
    THEN IF ~found_legal THEN terminal_score(st) ELSE best
    ELSE LET next == try_apply_legal(st, moves[i]) IN
         IF next = <<>>
         THEN search_loop(st, moves, i + 1, depth, alpha, beta, best, found_legal)
         ELSE LET score == neg(search_ab(next[1], depth - 1, neg(beta), neg(alpha)))
                  best1 == IF score > best THEN score ELSE best
                  alpha1 == IF score > alpha THEN score ELSE alpha
              IN  IF alpha1 >= beta THEN best1
                  ELSE search_loop(st, moves, i + 1, depth, alpha1, beta, best1, TRUE)

search_ab(st, depth, alpha, beta) ==
    IF depth = 0 THEN eval_material_for_side_to_move(st)
    ELSE search_loop(st, ordered_candidates(st), 1, depth, alpha, beta, I32_MIN, FALSE)

\* A negation in search_ab that overflows i32: one of -beta, -alpha and
\* -search_ab(..) at line 96 negates i32::MIN, in this call or in a call below
\* it.  A build with overflow checks panics there, one without wraps.
RECURSIVE search_ab_overflows(_, _, _, _)
RECURSIVE search_loop_overflows(_, _, _, _, _, _)
search_loop_overflows(st, moves, i, depth, alpha, beta) ==
    IF i > Len(moves) THEN FALSE
    ELSE LET next == try_apply_legal(st, moves[i]) IN
         IF next = <<>>
         THEN search_loop_overflows(st, moves, i + 1, depth, alpha, beta)
         ELSE LET value == search_ab(next[1], depth - 1, neg(beta), neg(alpha))
                  score == neg(value)
                  alpha1 == IF score > alpha THEN score ELSE alpha
              IN  \/ beta = I32_MIN
                  \/ alpha = I32_MIN
                  \/ value = I32_MIN
                  \/ search_ab_overflows(next[1], depth - 1, neg(beta), neg(alpha))
                  \/ /\ alpha1 < beta
                     /\ search_loop_overflows(st, moves, i + 1, depth, alpha1, beta)

search_ab_overflows(st, depth, alpha, beta) ==
    /\ depth # 0
    /\ search_loop_overflows(st, ordered_candidates(st), 1, depth, alpha, beta)

(***************************************************************************)
(* main.rs: the controller.  An output line is its kind and the move text   *)
(* it names (the depth and score numbers of an info line are left out).     *)
(***************************************************************************)
W_uci == <<"u", "c", "i">>
W_isready == <<"i", "s", "r", "e", "a", "d", "y">>
W_ucinewgame == <<"u", "c", "i", "n", "e", "w", "g", "a", "m", "e">>
W_position == <<"p", "o", "s", "i", "t", "i", "o", "n">>
W_startpos == <<"s", "t", "a", "r", "t", "p", "o", "s">>
W_fen == <<"f", "e", "n">>
W_moves == <<"m", "o", "v", "e", "s">>
W_go == <<"g", "o">>
W_quit == <<"q", "u", "i", "t">>

Output(kind, text) == [kind |-> kind, mv |-> text]

RECURSIVE play_tokens_skipping_unmatched(_, _, _)
play_tokens_skipping_unmatched(st, tokens, i) ==
    IF i > Len(tokens) THEN [state |-> st, proc |-> "running"]
    ELSE IF legal_moves_panics(st) THEN [state |-> st, proc |-> "panicked"]
    ELSE LET mv == parse_uci_move_text(tokens[i], legal_moves(st)) IN
         IF mv = NoMove THEN play_tokens_skipping_unmatched(st, tokens, i + 1)
         ELSE IF make_move_result(st, mv) # "Ok"
              THEN [state |-> st, proc |-> "running"]
              ELSE play_tokens_skipping_unmatched(make_move(st, mv), tokens, i + 1)
\* The loop of handle_position over the move tokens from token i on.
RECURSIVE play_tokens(_, _, _)
play_tokens(st, tokens, i) ==
    IF i > Len(tokens) THEN [state |-> st, proc |-> "running"]
    ELSE IF legal_moves_panics(st) THEN [state |-> st, proc |-> "panicked"]
    ELSE LET mv == parse_uci_move_text(tokens[i], legal_moves(st)) IN
         IF mv = NoMove THEN [state |-> st, proc |-> "running"]
         ELSE IF make_move_result(st, mv) # "Ok"
              THEN [state |-> st, proc |-> "running"]
              ELSE play_tokens(make_move(st, mv), tokens, i + 1)

\* The index of the first word "moves" of the line from word i on, 0 without one.
RECURSIVE moves_index(_, _)
moves_index(words, i) ==
    IF i > Len(words) THEN 0
    ELSE IF words[i] = W_moves THEN i
    ELSE moves_index(words, i + 1)

\* The fen arm of handle_position in a build with or without overflow checks.
position_fen(st, words, overflow_checks) ==
    LET at == moves_index(words, 3)
        fen == SubSeq(words, 3, IF at = 0 THEN Len(words) ELSE at - 1)
    IN  IF from_fen_panics(fen, overflow_checks)
        THEN [state |-> st, proc |-> "panicked"]
        ELSE IF ~set_fen_ok(fen, overflow_checks)
        THEN [state |-> st, proc |-> "running"]
        ELSE IF at = 0
        THEN [state |-> set_fen(st, fen, overflow_checks), proc |-> "running"]
        ELSE play_tokens(set_fen(st, fen, overflow_checks),
                         SubSeq(words, at + 1, Len(words)), 1)

handle_position_on_current_game(st, words) ==
    IF Len(words) < 2 THEN {[state |-> st, proc |-> "running"]}
    ELSE IF words[2] = W_startpos
    THEN IF Len(words) >= 3 /\ words[3] = W_moves
         THEN {play_tokens(st, SubSeq(words, 4, Len(words)), 1)}
         ELSE {[state |-> st, proc |-> "running"]}
    ELSE IF words[2] = W_fen
    THEN {position_fen(st, words, overflow_checks) : overflow_checks \in BOOLEAN}
    ELSE {[state |-> st, proc |-> "running"]}

\* What handle_position can leave: the live position and the process, for the
\* fen arm in either build.
handle_position(st, words) ==
    IF Len(words) < 2 THEN {[state |-> st, proc |-> "running"]}
    ELSE IF words[2] = W_startpos
    THEN IF Len(words) >= 3 /\ words[3] = W_moves
         THEN {play_tokens(reset(st), SubSeq(words, 4, Len(words)), 1)}
         ELSE {[state |-> reset(st), proc |-> "running"]}
    ELSE IF words[2] = W_fen
    THEN {position_fen(st, words, overflow_checks) : overflow_checks \in BOOLEAN}
    ELSE {[state |-> st, proc |-> "running"]}

Outcome(st, out, process, best, call) ==
    [state |-> st, out |-> out, proc |-> process, best |-> best, call |-> call]

go_report_bestmove_first(st, best) ==
    IF best = NoMove
    THEN Outcome(state_after_go(st, best), <<Output("bestmove", <<"0", "0", "0", "0">>)>>,
                 "running", best, "go")
    ELSE Outcome(state_after_go(st, best),
                 <<Output("bestmove", to_uci(best)), Output("info", to_uci(best))>>,
                 "running", best, "go")
\* The arm of main for the Option that Engine::go returned.
go_report(st, best) ==
    IF best = NoMove
    THEN Outcome(state_after_go(st, best), <<Output("bestmove", <<"0", "0", "0", "0">>)>>,
                 "running", best, "go")
    ELSE Outcome(state_after_go(st, best),
                 <<Output("info", to_uci(best)), Output("bestmove", to_uci(best))>>,
                 "running", best, "go")

\* One turn of main's loop on a trimmed line: the outcomes it can have, each the
\* live position, the lines printed, the process and the move go returned.
main_step(st, words) ==
    IF words = <<>> THEN {Outcome(st, <<>>, "running", NoMove, "blank")}
    ELSE IF words = <<W_uci>>
    THEN {Outcome(st, <<Output("id name", <<>>), Output("id author", <<>>),
                        Output("uciok", <<>>)>>, "running", NoMove, "uci")}
    ELSE IF words = <<W_isready>>
    THEN {Outcome(st, <<Output("readyok", <<>>)>>, "running", NoMove, "isready")}
    ELSE IF words = <<W_ucinewgame>>
    THEN {Outcome(reset(st), <<>>, "running", NoMove, "ucinewgame")}
    ELSE IF starts_with(words[1], W_position)
    THEN {Outcome(after.state, <<>>, after.proc, NoMove, "position") :
              after \in handle_position(st, words)}
    ELSE IF starts_with(words[1], W_go)
    THEN IF go_panics(st) THEN {Outcome(st, <<>>, "panicked", NoMove, "go")}
         ELSE {go_report(st, best) : best \in go(st)}
    ELSE IF words = <<W_quit>>
    THEN {Outcome(st, <<>>, "exited", NoMove, "quit")}
    ELSE {Outcome(st, <<>>, "running", NoMove, "ignored")}

(***************************************************************************)
(* The lines written to the process.                                       *)
(***************************************************************************)
\* uci
L_uci ==
    <<W_uci>>

\* ucinewgame
L_ucinewgame ==
    <<W_ucinewgame>>

\* position startpos moves e2e4 e7e5
L_e4_e5 ==
    <<W_position, W_startpos, W_moves, <<"e", "2", "e", "4">>,
      <<"e", "7", "e", "5">>>>

\* position startpos moves e2e4 e2e4 e7e5 (the second token matches no legal move)
L_e4_e4_e5 ==
    <<W_position, W_startpos, W_moves, <<"e", "2", "e", "4">>,
      <<"e", "2", "e", "4">>, <<"e", "7", "e", "5">>>>

\* position startpos moves f2f3 e7e5 g2g4 d8h4 (White is mated)
L_fools_mate ==
    <<W_position, W_startpos, W_moves, <<"f", "2", "f", "3">>,
      <<"e", "7", "e", "5">>, <<"g", "2", "g", "4">>, <<"d", "8", "h", "4">>>>

\* position fen 7k/5Q2/6K1/8/8/8/8/8 b - - 0 1 (Black is stalemated)
L_fen_stalemate ==
    <<W_position, W_fen,
      <<"7", "k", "/", "5", "Q", "2", "/", "6", "K", "1", "/", "8", "/", "8", "/", "8", "/", "8", "/", "8">>,
      <<"b">>, <<"-">>, <<"-">>, <<"0">>, <<"1">>>>

\* position fen 4k3/8/8/8/8/8/8/4X3 w - - 0 1
L_fen_unknown_letter ==
    <<W_position, W_fen,
      <<"4", "k", "3", "/", "8", "/", "8", "/", "8", "/", "8", "/", "8", "/", "8", "/", "4", "X", "3">>,
      <<"w">>, <<"-">>, <<"-">>, <<"0">>, <<"1">>>>

\* position fen 4k3/8/8/8/8/8/8/4K3/8 w - - 0 1
L_fen_nine_ranks ==
    <<W_position, W_fen,
      <<"4", "k", "3", "/", "8", "/", "8", "/", "8", "/", "8", "/", "8", "/", "8", "/", "4", "K", "3", "/", "8">>,
      <<"w">>, <<"-">>, <<"-">>, <<"0">>, <<"1">>>>

\* position fen 4k3/8/8/8/8/8/8/4K3R w - - 0 1 (a ninth square with a piece on it)
L_fen_nine_files ==
    <<W_position, W_fen,
      <<"4", "k", "3", "/", "8", "/", "8", "/", "8", "/", "8", "/", "8", "/", "8", "/", "4", "K", "3", "R">>,
      <<"w">>, <<"-">>, <<"-">>, <<"0">>, <<"1">>>>

\* position fen 4k3/8/8/8/8/8/8/4K4 w - - 0 1 (nine squares, the ninth empty)
L_fen_nine_empty ==
    <<W_position, W_fen,
      <<"4", "k", "3", "/", "8", "/", "8", "/", "8", "/", "8", "/", "8", "/", "8", "/", "4", "K", "4">>,
      <<"w">>, <<"-">>, <<"-">>, <<"0">>, <<"1">>>>

\* go
L_go ==
    <<W_go>>

\* gone (the first token only begins with go)
L_gone ==
    <<<<"g", "o", "n", "e">>>>

\* positions startpos moves d2d4 (the first token only begins with position)
L_positions ==
    <<<<"p", "o", "s", "i", "t", "i", "o", "n", "s">>, W_startpos, W_moves,
      <<"d", "2", "d", "4">>>>

\* quit
L_quit ==
    <<W_quit>>

\* isready
L_isready ==
    <<W_isready>>

\* position fen 4k3/8/8/8/8/8/8/4K3
L_fen_no_side ==
    <<W_position, W_fen,
      <<"4", "k", "3", "/", "8", "/", "8", "/", "8", "/", "8", "/", "8", "/", "8", "/",
        "4", "K", "3">>>>

\* stop
L_stop ==
    <<<<"s", "t", "o", "p">>>>

InputLines ==
    { L_uci, L_isready, L_ucinewgame, L_e4_e5,
      L_e4_e4_e5, L_fools_mate, L_fen_stalemate, L_fen_unknown_letter,
      L_fen_no_side, L_fen_nine_ranks, L_fen_nine_files, L_fen_nine_empty,
      L_go, L_gone, L_positions, L_stop,
      L_quit }

\* Lines written to the process in one run.
MaxLines == 2

InitUci ==
    /\ state = GameState_new
    /\ prev = GameState_new
    /\ last = NoMove
    /\ result = "None"
    /\ line = 0
    /\ idx = 0
    /\ free = 0
    /\ fresh_process
    /\ search = no_search

\* The other end of the pipe writes its next line once the line before it has
\* been taken from the pipe.
Send ==
    /\ stdin = <<>>
    /\ reads < MaxLines
    /\ \E l \in InputLines : stdin' = Append(stdin, l)
    /\ UNCHANGED <<state, prev, last, result, line, idx, free, seen, reads, stdout, proc,
                   search>>

\* One turn of main's loop: the next line is read and handled to its end, what it
\* prints is on stdout before the loop reads again.  result is the arm of main
\* that handled the line, last the move Engine::go returned.
ReadLine ==
    /\ proc = "running"
    /\ stdin # <<>>
    /\ \E o \in main_step(state, Head(stdin)) :
           /\ state' = o.state
           /\ prev' = state
           /\ last' = o.best
           /\ result' = o.call
           /\ proc' = o.proc
           /\ stdout' = o.out
    /\ stdin' = Tail(stdin)
    /\ seen' = <<Head(stdin)>>
    /\ reads' = reads + 1
    /\ UNCHANGED <<line, idx, free, search>>

NextUci == Send \/ ReadLine

SpecUci == InitUci /\ [][NextUci]_vars

\* A move of the legal list printed by to_uci and read back by parse_uci_move
\* against the same list, then made; one such move from each set-up position.
TextMove ==
    /\ result = "None"
    /\ LET legal == legal_moves(state) IN
       \E m \in Range(legal) :
           /\ parse_uci_move_text(to_uci(m), legal) # NoMove
           /\ CallMakeMove(parse_uci_move_text(to_uci(m), legal))
    /\ UNCHANGED <<line, idx, free>>

NextText == TextMove

SpecText == InitPos /\ [][NextText]_vars

(***************************************************************************)
(* The search called on small positions.  Engine::go passes the depth      *)
(* SEARCH_DEPTH - 1 to search_ab; here the depth is drawn from 0..MaxDepth. *)
(***************************************************************************)
\* White: Kh6, pawns f7, g6, g5 and h5; Black: Kh8.  White mates by g7, f8=Q
\* or f8=R; the king has no legal move.
ROOT_MATE ==
    put_all(empty_state(White),
            << <<<<7, 5>>, Piece(White, "King")>>,
               <<<<5, 6>>, Piece(White, "Pawn")>>,
               <<<<6, 5>>, Piece(White, "Pawn")>>,
               <<<<6, 4>>, Piece(White, "Pawn")>>,
               <<<<7, 4>>, Piece(White, "Pawn")>>,
               <<<<7, 7>>, Piece(Black, "King")>> >>, 1)

\* The same board with Black to move: stalemate.
ROOT_STALEMATE == [ROOT_MATE EXCEPT !.side_to_move = Black]

\* White: Ka1, pawn d4; Black: Kh8, pawns b6, c5 and e5.  The capture on c5 is
\* answered by the b-pawn, the capture on e5 wins a pawn.
ROOT_PAWNS ==
    put_all(empty_state(White),
            << <<<<0, 0>>, Piece(White, "King")>>,
               <<<<3, 3>>, Piece(White, "Pawn")>>,
               <<<<7, 7>>, Piece(Black, "King")>>,
               <<<<1, 5>>, Piece(Black, "Pawn")>>,
               <<<<2, 4>>, Piece(Black, "Pawn")>>,
               <<<<4, 4>>, Piece(Black, "Pawn")>> >>, 1)

\* White: Ka1, knight a4, pawn b4; Black: Kh8, pawns a5, b5, b6 and a7.  The
\* first candidate, the capture on b6, loses the knight to the a-pawn; after a
\* king move the first reply takes the pawn on b4, a later one the knight.
ROOT_KNIGHT ==
    put_all(empty_state(White),
            << <<<<0, 0>>, Piece(White, "King")>>,
               <<<<0, 3>>, Piece(White, "Knight")>>,
               <<<<1, 3>>, Piece(White, "Pawn")>>,
               <<<<7, 7>>, Piece(Black, "King")>>,
               <<<<0, 4>>, Piece(Black, "Pawn")>>,
               <<<<1, 4>>, Piece(Black, "Pawn")>>,
               <<<<1, 5>>, Piece(Black, "Pawn")>>,
               <<<<0, 6>>, Piece(Black, "Pawn")>> >>, 1)

SearchRoots == {ROOT_MATE, ROOT_STALEMATE, ROOT_PAWNS, ROOT_KNIGHT}

\* The roots and the positions one legal move after them.
SearchNodes ==
    SearchRoots \cup
    UNION { {apply_move_unchecked(r, m) : m \in Range(legal_moves(r))} : r \in SearchRoots }

\* The deepest search called.
MaxDepth == 2

\* The windows search_ab is called with: alpha < beta.
WindowBounds == {-INF, -MATE_SCORE, -1, 0, MATE_SCORE, INF}

Windows == {w \in WindowBounds \X WindowBounds : w[1] < w[2]}

InitSearch ==
    /\ state \in SearchNodes
    /\ \E d \in 0..MaxDepth, w \in Windows :
           search = [phase |-> "search_ab", depth |-> d, alpha |-> w[1], beta |-> w[2]]
    /\ prev = state
    /\ last = NoMove
    /\ result = "None"
    /\ line = 0
    /\ idx = 0
    /\ free = 0
    /\ fresh_process

\* The call search_ab(&state, depth, alpha, beta) and the value it returns.
CallSearchAb ==
    /\ search.phase = "search_ab"
    /\ search' = [phase |-> "search_ab returned", depth |-> search.depth,
                  alpha |-> search.alpha, beta |-> search.beta,
                  value |-> search_ab(state, search.depth, search.alpha, search.beta)]
    /\ UNCHANGED <<state, prev, last, result, line, idx, free,
                   stdin, seen, reads, stdout, proc>>

NextSearch == CallSearchAb

SpecSearch == InitSearch /\ [][NextSearch]_vars

(***************************************************************************)
(* Engine::go step by step: the sequential loop up to the first legal      *)
(* candidate, the closure of the parallel phase run on the remaining       *)
(* candidates in any order, and max_by_key with the final comparison.      *)
(***************************************************************************)
InitGo ==
    /\ state \in SearchRoots
    /\ \E d \in 0..MaxDepth : search = [phase |-> "go", depth |-> d]
    /\ prev = state
    /\ last = NoMove
    /\ result = "None"
    /\ line = 0
    /\ idx = 0
    /\ free = 0
    /\ fresh_process

\* The indices of the ordered candidates that pass try_apply_legal.
passing(st) ==
    LET moves == ordered_candidates(st)
    IN  {i \in 1..Len(moves) : try_apply_legal(st, moves[i]) # <<>>}

\* The first legal candidate of the loop of go: its index, 0 when there is none.
first_index(st) ==
    IF passing(st) = {} THEN 0
    ELSE CHOOSE i \in passing(st) : \A j \in passing(st) : i <= j

\* best_score after the loop: the first legal candidate under the full window.
first_score(st, depth) ==
    neg(search_ab(try_apply_legal(st, ordered_candidates(st)[first_index(st)])[1],
                  depth, -INF, INF))

\* The closure of filter_map on candidate i with alpha0: no item for a candidate
\* that fails the filter, else its (score, mv), mv kept as the index i.
scored(st, depth, alpha0, i) ==
    LET next == try_apply_legal(st, ordered_candidates(st)[i])
    IN  IF next = <<>> THEN {}
        ELSE {<<neg(search_ab(next[1], depth, -INF, neg(alpha0))), i>>}

\* go up to the parallel phase: no candidate or no legal candidate returns None,
\* a first legal candidate that is the last candidate is returned at once.
GoFirst ==
    /\ search.phase = "go"
    /\ LET moves == ordered_candidates(state)
           start == first_index(state)
       IN  IF start = 0
           THEN /\ search' = [phase |-> "go returned", depth |-> search.depth,
                              start |-> 0, best_score |-> I32_MIN, results |-> {}]
                /\ last' = NoMove
           ELSE IF start < Len(moves)
           THEN /\ search' = [phase |-> "parallel", depth |-> search.depth,
                              start |-> start,
                              best_score |-> first_score(state, search.depth),
                              pending |-> (start + 1)..Len(moves), results |-> {}]
                /\ last' = moves[start]
           ELSE /\ search' = [phase |-> "go returned", depth |-> search.depth,
                              start |-> start,
                              best_score |-> first_score(state, search.depth),
                              results |-> {}]
                /\ last' = moves[start]
    /\ UNCHANGED <<state, prev, result, line, idx, free, stdin, seen, reads, stdout, proc>>

GoWorker_sharing_best_score ==
    /\ search.phase = "parallel"
    /\ \E i \in search.pending :
           LET seen_scores == {search.best_score} \cup {x[1] : x \in search.results}
               shared == CHOOSE s \in seen_scores : \A y \in seen_scores : y <= s
           IN  search' = [search EXCEPT
                             !.pending = @ \ {i},
                             !.results = @ \cup scored(state, search.depth, shared, i)]
    /\ UNCHANGED <<state, prev, last, result, line, idx, free,
                   stdin, seen, reads, stdout, proc>>
\* A worker runs the closure on one of the remaining candidates.
GoWorker ==
    /\ search.phase = "parallel"
    /\ \E i \in search.pending :
           search' = [search EXCEPT
                         !.pending = @ \ {i},
                         !.results = @ \cup scored(state, search.depth, search.best_score, i)]
    /\ UNCHANGED <<state, prev, last, result, line, idx, free,
                   stdin, seen, reads, stdout, proc>>

max_by_key_least(results) == {x \in results : \A y \in results : x[1] <= y[1]}
\* The items max_by_key can return: those of the greatest score.
max_by_key(results) == {x \in results : \A y \in results : y[1] <= x[1]}

GoReduce_replacing_on_tie ==
    /\ search.phase = "parallel"
    /\ search.pending = {}
    /\ IF search.results = {}
       THEN last' = last
       ELSE \E top \in max_by_key(search.results) :
                last' = IF top[1] >= search.best_score
                        THEN ordered_candidates(state)[top[2]]
                        ELSE last
    /\ search' = [phase |-> "go returned", depth |-> search.depth, start |-> search.start,
                  best_score |-> search.best_score, results |-> search.results]
    /\ UNCHANGED <<state, prev, result, line, idx, free, stdin, seen, reads, stdout, proc>>
\* max_by_key over the results and the comparison with best_score.
GoReduce ==
    /\ search.phase = "parallel"
    /\ search.pending = {}
    /\ IF search.results = {}
       THEN last' = last
       ELSE \E top \in max_by_key(search.results) :
                last' = IF top[1] > search.best_score
                        THEN ordered_candidates(state)[top[2]]
                        ELSE last
    /\ search' = [phase |-> "go returned", depth |-> search.depth, start |-> search.start,
                  best_score |-> search.best_score, results |-> search.results]
    /\ UNCHANGED <<state, prev, result, line, idx, free, stdin, seen, reads, stdout, proc>>

NextGo == GoFirst \/ GoWorker \/ GoReduce

SpecGo == InitGo /\ [][NextGo]_vars

(***************************************************************************)
(* ordered_candidates called on a set-up position.                         *)
(***************************************************************************)
CallOrderedCandidates ==
    /\ search.phase = "none"
    /\ search' = [phase |-> "ordered_candidates returned",
                  moves |-> ordered_candidates(state)]
    /\ UNCHANGED <<state, prev, last, result, line, idx, free,
                   stdin, seen, reads, stdout, proc>>

NextOrder == CallOrderedCandidates

SpecOrder == InitPos /\ [][NextOrder]_vars

(***************************************************************************)
(* generate_candidates called on positions from_fen can load in which each *)
(* condition of a castle holds or fails on its own: the king on or off its *)
(* home square, each right set or clear, each corner holding the rook,     *)
(* nothing, an enemy rook or another piece of the side, and at most one    *)
(* piece between king and rooks.                                           *)
(***************************************************************************)
\* The king's squares, counted from the home rank of the side: e1, e2.
CastleKingSquares == {<<4, 0>>, <<4, 1>>}

\* The files between the king and the rooks on the home rank.
CastleBetweenFiles == {1, 2, 3, 5, 6}

\* What stands on a corner.
corner_pieces(side) ==
    {Piece(side, "Rook"), NoPiece, Piece(opposite(side), "Rook"), Piece(side, "Queen")}

\* What stands between king and rook.
between_pieces(side) == {Piece(side, "Knight"), Piece(opposite(side), "Bishop")}

\* The rights of the other side are the complement of those of the side to move.
castle_variant(side, king_sq, kingside, queenside, h_piece, a_piece) ==
    LET home == IF side = White THEN 0 ELSE 7
        st == put_all(empty_state(side),
                      << <<<<king_sq[1], rel(side, king_sq[2])>>, Piece(side, "King")>>,
                         <<<<0, home>>, a_piece>>,
                         <<<<7, home>>, h_piece>>,
                         <<<<4, 7 - home>>, Piece(opposite(side), "King")>> >>, 1)
    IN  [st EXCEPT !.castling =
            IF side = White
            THEN [white_kingside |-> kingside, white_queenside |-> queenside,
                  black_kingside |-> ~kingside, black_queenside |-> ~queenside]
            ELSE [white_kingside |-> ~kingside, white_queenside |-> ~queenside,
                  black_kingside |-> kingside, black_queenside |-> queenside]]

InitCastle ==
    /\ \E side \in Colors, king_sq \in CastleKingSquares,
          kingside \in BOOLEAN, queenside \in BOOLEAN :
       \E h_piece \in corner_pieces(side), a_piece \in corner_pieces(side) :
          LET setup == castle_variant(side, king_sq, kingside, queenside, h_piece, a_piece)
              home == IF side = White THEN 0 ELSE 7
          IN  \/ state = setup
              \/ \E f \in CastleBetweenFiles, pc \in between_pieces(side) :
                     state = with_extra(setup, pc, <<f, home>>)
    /\ prev = state
    /\ last = NoMove
    /\ result = "None"
    /\ line = 0
    /\ idx = 0
    /\ free = 0
    /\ fresh_process
    /\ search = no_search

CallGenerateCandidates ==
    /\ search.phase = "none"
    /\ search' = [phase |-> "generate_candidates returned",
                  moves |-> generate_candidates(state)]
    /\ UNCHANGED <<state, prev, last, result, line, idx, free,
                   stdin, seen, reads, stdout, proc>>

NextCastle == CallGenerateCandidates

SpecCastle == InitCastle /\ [][NextCastle]_vars

(***************************************************************************)
(* is_square_attacked called on a set-up position, for an occupied square  *)
(* and either colour.                                                      *)
(***************************************************************************)
CallIsSquareAttacked ==
    /\ search.phase = "none"
    /\ \E square \in Squares, by_color \in Colors :
           /\ piece_at(state.board, square) # NoPiece
           /\ search' = [phase |-> "is_square_attacked returned",
                         square |-> square, by_color |-> by_color,
                         attacked |-> is_square_attacked(state, square, by_color)]
    /\ UNCHANGED <<state, prev, last, result, line, idx, free,
                   stdin, seen, reads, stdout, proc>>

NextAttack == CallIsSquareAttacked

SpecAttack == InitPos /\ [][NextAttack]_vars

(***************************************************************************)
(* Properties                                                              *)
(***************************************************************************)
\* The squares of `board` holding `piece`.
squares_of(board, piece) == {sq \in Squares : piece_at(board, sq) = piece}

\* C1: Game::make_move(mv) succeeds and applies mv if and only if mv is a member
\* of legal_moves of the current position; for every other Move value it returns
\* IllegalMove and leaves the position unchanged.
C1_MakeMoveIffLegal ==
    result # "None" =>
        IF last \in Range(legal_moves(prev))
        THEN result = "Ok" /\ state = apply_move_unchecked(prev, last)
        ELSE result = "IllegalMove" /\ state = prev

\* C2: after every legal move of legal play from the standard start, the side
\* that just moved is not in check.
C2_MoverNotInCheck ==
    result = "Ok" => ~is_in_check(state, opposite(state.side_to_move))

\* A legal move was made from a position in which the filter rejected a candidate.
C2_Witness ==
    /\ result = "Ok"
    /\ Len(legal_moves(prev)) < Len(generate_candidates(prev))
    /\ is_in_check(state, state.side_to_move)

\* C3: in every position of legal play from the standard start the board holds
\* exactly one White king and exactly one Black king, so find_king never fails.
C3_BothKingsPresent ==
    \A c \in Colors :
        /\ Cardinality(squares_of(state.board, Piece(c, "King"))) = 1
        /\ ~is_in_check_panics(state, c)

\* A pawn has just promoted by a capture, and both kings are still there.
C3_Witness ==
    /\ result = "Ok"
    /\ last.kind.tag = "Promotion"
    /\ piece_at(prev.board, last.to) # NoPiece
    /\ squares_of(state.board, Piece(White, "King")) # {}
    /\ squares_of(state.board, Piece(Black, "King")) # {}

Rights == {"white_kingside", "white_queenside", "black_kingside", "black_queenside"}

\* C4: along any sequence of moves applied by make_move each castling right is
\* non-increasing: a right that is false stays false after the next move.
C4_RightsMonotonic ==
    [][\A r \in Rights : ~state.castling[r] => ~state'.castling[r]]_vars

\* White's king and rooks are back on their home squares after the king moved
\* away, and White's rights are still cleared.
C4_Witness ==
    /\ result = "Ok"
    /\ piece_at(state.board, <<4, 0>>) = Piece(White, "King")
    /\ piece_at(state.board, <<7, 0>>) = Piece(White, "Rook")
    /\ piece_at(state.board, <<0, 0>>) = Piece(White, "Rook")
    /\ ~state.castling.white_kingside
    /\ ~state.castling.white_queenside
    /\ ~prev.castling.white_kingside

right_color(r) == IF r \in {"white_kingside", "white_queenside"} THEN White ELSE Black

right_corner(r) ==
    <<IF r \in {"white_kingside", "black_kingside"} THEN 7 ELSE 0,
      IF right_color(r) = White THEN 0 ELSE 7>>

right_king_home(r) == <<4, IF right_color(r) = White THEN 0 ELSE 7>>

\* C5: in every position of legal play from the standard start a castling right
\* that is still true implies the king of that colour on its home square and a
\* rook of that colour on the corresponding corner.
C5_RightsImplyHomeSquares ==
    \A r \in Rights :
        state.castling[r] =>
            /\ piece_at(state.board, right_king_home(r)) = Piece(right_color(r), "King")
            /\ piece_at(state.board, right_corner(r)) = Piece(right_color(r), "Rook")

\* A promoting pawn has just taken the rook on h8, and Black's kingside right is gone.
C5_Witness ==
    /\ result = "Ok"
    /\ last.kind.tag = "Promotion"
    /\ last.to = <<7, 7>>
    /\ piece_at(prev.board, <<7, 7>>) = Piece(Black, "Rook")
    /\ prev.castling.black_kingside
    /\ ~state.castling.black_kingside

\* C6: in every position of legal play from the standard start, a set en-passant
\* target has rank 2 or 5, is an empty square, and the square one rank beyond it
\* on its file holds a pawn of the colour opposite to the side to move.
C6_EnPassantTargetShape ==
    state.en_passant # NoSquare =>
        LET ep == state.en_passant
            pusher == opposite(state.side_to_move)
            beyond == <<ep[1], ep[2] + (IF pusher = White THEN 1 ELSE -1)>>
        IN  /\ ep[2] \in {2, 5}
            /\ piece_at(state.board, ep) = NoPiece
            /\ in_bounds(beyond[1], beyond[2])
            /\ piece_at(state.board, beyond) = Piece(pusher, "Pawn")

\* A double push has just set the target.
C6_Witness ==
    /\ result = "Ok"
    /\ state.en_passant # NoSquare
    /\ piece_at(prev.board, last.from).kind = "Pawn"
    /\ Abs(last.to[2] - last.from[2]) = 2

\* C7 as stated: a set en-passant target has rank 2 when White is the side to
\* move and rank 5 when Black is the side to move.
C7_TargetRankAsStated ==
    state.en_passant # NoSquare =>
        state.en_passant[2] = (IF state.side_to_move = White THEN 2 ELSE 5)

\* C7 amended: a set en-passant target has rank 5 when White is the side to move
\* (Black's double push passed over rank 5) and rank 2 when Black is the side to move.
C7_TargetRankBySide ==
    state.en_passant # NoSquare =>
        state.en_passant[2] = (IF state.side_to_move = White THEN 5 ELSE 2)

\* Black has just made a double push: White is to move and the target is set.
C7_Witness ==
    /\ result = "Ok"
    /\ state.en_passant # NoSquare
    /\ state.side_to_move = White
    /\ piece_at(state.board, last.to) = Piece(Black, "Pawn")

\* mv is a member of legal_moves(st): legal_moves keeps exactly the candidates
\* that is_move_legal accepts.
in_legal_moves(st, mv) ==
    mv \in Range(generate_candidates(st)) /\ is_move_legal(st, mv)

castle_candidates(st) == {mv \in Range(generate_candidates(st)) : is_castle(mv.kind)}

\* The king's square, the square it transits and the square it lands on are all
\* free of attack by the opponent of the side to move.
castle_path_safe(st, kind) ==
    LET rank == castle_rank(st.side_to_move)
        opponent == opposite(st.side_to_move)
    IN  /\ ~is_square_attacked(st, <<4, rank>>, opponent)
        /\ ~is_square_attacked(st, <<IF kind = CastleKingside THEN 5 ELSE 3, rank>>, opponent)
        /\ ~is_square_attacked(st, <<IF kind = CastleKingside THEN 6 ELSE 2, rank>>, opponent)

b_file_attacked(st) ==
    is_square_attacked(st, <<1, castle_rank(st.side_to_move)>>, opposite(st.side_to_move))

\* C8: a castle candidate is in legal_moves only if the mover is not in check and
\* neither the square the king transits (f- or d-file) nor its destination (g- or
\* c-file) is attacked; an attack on the b-file square alone does not forbid
\* queenside castling.
C8_CastleOnlyWhenSafe ==
    \A mv \in castle_candidates(state) :
        /\ in_legal_moves(state, mv) => castle_path_safe(state, mv.kind)
        /\ (mv.kind = CastleQueenside /\ b_file_attacked(state)
            /\ castle_path_safe(state, mv.kind)) => in_legal_moves(state, mv)

\* Queenside castling has just been made from a position in which the b-file
\* square was attacked and kingside castling was a candidate the filter rejected.
C8_Witness ==
    /\ result = "Ok"
    /\ last.kind = CastleQueenside
    /\ b_file_attacked(prev)
    /\ \E mv \in castle_candidates(prev) :
           mv.kind = CastleKingside /\ ~in_legal_moves(prev, mv)

\* The board after an en-passant capture, square by square: the captured pawn is
\* gone from (to.file, from.rank), the capturing pawn stands on `to`, not on `from`.
board_after_en_passant(board, mv) ==
    [r \in 1..8 |-> [f \in 1..8 |->
        LET sq == <<f - 1, r - 1>> IN
        IF sq = mv.to THEN piece_at(board, mv.from)
        ELSE IF sq = mv.from \/ sq = <<mv.to[1], mv.from[2]>> THEN NoPiece
        ELSE piece_at(board, sq)]]

en_passant_exposes_king(st, mv) ==
    LET after == [st EXCEPT !.board = board_after_en_passant(st.board, mv)] IN
    \E k \in squares_of(after.board, Piece(st.side_to_move, "King")) :
        is_square_attacked(after, k, opposite(st.side_to_move))

en_passant_candidates(st) == {mv \in Range(generate_candidates(st)) : mv.kind = EnPassant}

\* C9: an EnPassant candidate is excluded from legal_moves whenever the mover's
\* king is attacked on the board obtained by removing the captured pawn from
\* (to.file, from.rank) and moving the capturing pawn from `from` to `to`.
C9_EnPassantExposingKingExcluded ==
    \A mv \in en_passant_candidates(state) :
        en_passant_exposes_king(state, mv) => ~in_legal_moves(state, mv)

\* A move has just been made from a position in which the mover was not in
\* check, its king shared the rank of the two pawns, and the en-passant capture,
\* which would have exposed it, was not among the legal moves.
C9_Witness ==
    /\ result = "Ok"
    /\ ~is_in_check(prev, prev.side_to_move)
    /\ \E mv \in en_passant_candidates(prev) :
           /\ find_king(prev.board, prev.side_to_move)[2] = mv.from[2]
           /\ en_passant_exposes_king(prev, mv)
           /\ ~in_legal_moves(prev, mv)

last_rank_of(color) == IF color = White THEN 7 ELSE 0

pawn_to_last_rank(st, mv) ==
    /\ piece_at(st.board, mv.from).kind = "Pawn"
    /\ mv.to[2] = last_rank_of(piece_at(st.board, mv.from).color)

\* The promotion pieces of the candidates from `from` to `to`, in emission order.
emitted_promotions(cands, from, to) ==
    LET hits == SelectSeq(cands, LAMBDA mv : mv.from = from /\ mv.to = to) IN
    [i \in 1..Len(hits) |-> hits[i].kind.promo]

\* C10: a candidate has kind Promotion(_) if and only if the moving piece is a
\* pawn whose destination is its last rank; every pawn move onto the last rank is
\* emitted exactly four times, once each for Queen, Rook, Bishop and Knight, and
\* never as a Normal move.
C10_PromotionIffPawnReachesLastRank ==
    LET cands == generate_candidates(state) IN
    \A i \in 1..Len(cands) :
        /\ cands[i].kind.tag = "Promotion" <=> pawn_to_last_rank(state, cands[i])
        /\ pawn_to_last_rank(state, cands[i]) =>
               LET promos == emitted_promotions(cands, cands[i].from, cands[i].to) IN
               /\ Len(promos) = 4
               /\ Range(promos) = {"Queen", "Rook", "Bishop", "Knight"}

\* A pawn has just promoted by a capture, from a position in which it could
\* also promote by a push.
C10_Witness ==
    /\ result = "Ok"
    /\ last.kind.tag = "Promotion"
    /\ last.from[1] # last.to[1]
    /\ \E mv \in Range(generate_candidates(prev)) :
           mv.kind.tag = "Promotion" /\ mv.from = last.from /\ mv.from[1] = mv.to[1]

\* The pawn pushes a2a3..h2h4 and the knight moves b1a3, b1c3, g1f3, g1h3.
OpeningMoves ==
    { Move(<<f, 1>>, <<f, r>>, Normal) : f \in 0..7, r \in {2, 3} }
    \cup { Move(<<1, 0>>, <<0, 2>>, Normal), Move(<<1, 0>>, <<2, 2>>, Normal),
           Move(<<6, 0>>, <<5, 2>>, Normal), Move(<<6, 0>>, <<7, 2>>, Normal) }

\* C11: from the standard initial position legal_moves returns exactly 20 moves,
\* the 16 pawn pushes and the 4 knight moves, each once and nothing else.
C11_OpeningHasTwentyMoves ==
    \A st \in {state, prev} :
        st = GameState_new =>
            /\ Len(legal_moves(st)) = 20
            /\ Range(legal_moves(st)) = OpeningMoves

\* A knight move has just been made from the standard initial position.
C11_Witness ==
    /\ result = "Ok"
    /\ prev = GameState_new
    /\ piece_at(prev.board, last.from).kind = "Knight"
    /\ last \in Range(legal_moves(prev))

\* C20: for every move m of the legal list of a position, parse_uci_move of
\* to_uci(m) against that list is m itself; the four characters of a promotion's
\* text alone never resolve to a promotion.  (A castle is printed as the king's
\* two-square move, so the first part says that this text resolves to the castle.)
C20_DecodeOfEncodeIsTheMove ==
    result = "None" =>
        LET legal == legal_moves(state) IN
        \A m \in Range(legal) :
            /\ parse_uci_move_text(to_uci(m), legal) = m
            /\ Len(to_uci(m)) = 5 =>
                   /\ m.kind.tag = "Promotion"
                   /\ parse_uci_move_text(SubSeq(to_uci(m), 1, 4), legal).kind.tag
                          # "Promotion"

\* The text e1c1 has been read back as the queenside castle and made.
C20_Witness ==
    /\ result = "Ok"
    /\ last.kind = CastleQueenside
    /\ to_uci(last) = <<"e", "1", "c", "1">>
    /\ piece_at(state.board, <<3, 0>>) = Piece(White, "Rook")

(***************************************************************************)
(* C12: Engine::go returns no move exactly when the position has no legal  *)
(* move, which is when it is checkmate or stalemate; otherwise the move it *)
(* returns is a member of legal_moves of that position.                    *)
(***************************************************************************)
C12_GoReturnsNoneIffNoLegalMove ==
    result = "go" /\ proc = "running" =>
        IF last = NoMove
        THEN /\ legal_moves(prev) = <<>>
             /\ is_checkmate(prev) \/ is_stalemate(prev)
        ELSE in_legal_moves(prev, last)

\* go answered with no move in the stalemate position, whose king has candidate
\* moves and none of them legal.
C12_Witness ==
    /\ result = "go"
    /\ last = NoMove
    /\ is_stalemate(prev)
    /\ generate_candidates(prev) # <<>>

\* The first token of the line is the word go.
is_go_command(words) == words # <<>> /\ words[1] = W_go

(***************************************************************************)
(* C13: for every go command read in a position with a legal move, the     *)
(* output is one info line with a pv move followed by one bestmove line    *)
(* naming the same move, a move of the position; in a position without a   *)
(* legal move the output is the single line bestmove 0000.                 *)
(***************************************************************************)
C13_InfoThenBestmove ==
    seen # <<>> /\ is_go_command(seen[1]) /\ proc = "running" =>
        IF Len(stdout) = 1
        THEN /\ stdout[1] = Output("bestmove", <<"0", "0", "0", "0">>)
             /\ legal_moves(prev) = <<>>
        ELSE /\ Len(stdout) = 2
             /\ stdout[1].kind = "info"
             /\ stdout[2].kind = "bestmove"
             /\ stdout[1].mv = stdout[2].mv
             /\ stdout[2].mv = to_uci(last)
             /\ in_legal_moves(prev, last)

\* go read after position startpos moves e2e4 e7e5: info and bestmove name one
\* move.
C13_Witness ==
    /\ seen = <<L_go>>
    /\ piece_at(prev.board, <<4, 3>>) = [color |-> "White", kind |-> "Pawn"]
    /\ piece_at(prev.board, <<4, 4>>) = [color |-> "Black", kind |-> "Pawn"]
    /\ Len(stdout) = 2
    /\ stdout[1].kind = "info"
    /\ stdout[2].kind = "bestmove"
    /\ stdout[1].mv = stdout[2].mv
    /\ stdout[2].mv = <<"g", "1", "f", "3">>

\* No line waiting in the pipe before its line k is the quit command.
no_quit_before(k) == \A j \in 1..(k - 1) : stdin[j] # <<W_quit>>

(***************************************************************************)
(* C14: lines are handled one at a time and every go command written to    *)
(* the process before a quit is answered: when it is the last line read    *)
(* its bestmove line has been printed, before any later line is read, and  *)
(* while it waits in the pipe the process is still reading, unless a quit  *)
(* read earlier has ended it.                                              *)
(***************************************************************************)
C14_EveryGoIsAnswered ==
    /\ seen # <<>> /\ is_go_command(seen[1]) =>
           \E i \in 1..Len(stdout) : stdout[i].kind = "bestmove"
    /\ \A k \in 1..Len(stdin) :
           is_go_command(stdin[k]) /\ no_quit_before(k) => proc \in {"running", "exited"}

\* The first token of the line is the word position.
is_position_command(words) == words # <<>> /\ words[1] = W_position

\* The move tokens of a position startpos moves line, <<>> for any other line.
startpos_tokens(words) ==
    IF /\ is_position_command(words)
       /\ Len(words) >= 3
       /\ words[2] = W_startpos
       /\ words[3] = W_moves
    THEN SubSeq(words, 4, Len(words))
    ELSE <<>>

\* The legal moves of the position that the token text names: its squares and,
\* when it has five characters, its promotion piece.
moves_named(st, text) ==
    IF parse_token(text) = NoToken THEN {}
    ELSE {m \in Range(legal_moves(st)) : token_matches(parse_token(text), m)}

\* The position left by the tokens from token i on, each applied while it names
\* a legal move, and the index of the first token that names none (0 if all do).
RECURSIVE tokens_applied(_, _, _)
tokens_applied(st, tokens, i) ==
    IF i > Len(tokens) THEN [state |-> st, stopped |-> 0]
    ELSE IF moves_named(st, tokens[i]) = {} THEN [state |-> st, stopped |-> i]
    ELSE tokens_applied(
             apply_move_unchecked(st, CHOOSE m \in moves_named(st, tokens[i]) : TRUE),
             tokens, i + 1)

(***************************************************************************)
(* C15: when a token of a position startpos moves line is well formed but  *)
(* names no legal move, it and the tokens after it are discarded: the      *)
(* position is the one left by the tokens before it, and nothing is        *)
(* printed.                                                                *)
(***************************************************************************)
C15_UnmatchedTokenStopsTheList ==
    seen # <<>> /\ startpos_tokens(seen[1]) # <<>> =>
        LET tokens == startpos_tokens(seen[1])
            left == tokens_applied(GameState_new, tokens, 1)
        IN  left.stopped > 0 /\ parse_token(tokens[left.stopped]) # NoToken =>
                /\ state = left.state
                /\ stdout = <<>>
                /\ proc = "running"

\* position startpos moves e2e4 e2e4 e7e5 was read: the e-pawn stands on e4, the
\* black e-pawn is still on e7 and Black is to move.
C15_Witness ==
    /\ seen = <<L_e4_e4_e5>>
    /\ piece_at(state.board, <<4, 3>>) = [color |-> "White", kind |-> "Pawn"]
    /\ piece_at(state.board, <<4, 6>>) = [color |-> "Black", kind |-> "Pawn"]
    /\ piece_at(state.board, <<4, 4>>) = NoPiece
    /\ state.side_to_move = "Black"

\* The FEN fields of a position fen line: the words after fen up to the word
\* moves.
fen_words(words) ==
    LET at == moves_index(words, 3)
    IN  SubSeq(words, 3, IF at = 0 THEN Len(words) ELSE at - 1)

is_position_fen_command(words) ==
    is_position_command(words) /\ Len(words) >= 2 /\ words[2] = W_fen

FEN_PIECE_LETTERS ==
    {"p", "n", "b", "r", "q", "k", "P", "N", "B", "R", "Q", "K"}

\* The number of files each rank of a placement field describes, from character
\* i on: a digit counts for its value, any other character for one square.
RECURSIVE rank_widths(_, _, _, _)
rank_widths(chars, i, width, widths) ==
    IF i > Len(chars) THEN Append(widths, width)
    ELSE IF chars[i] = "/" THEN rank_widths(chars, i + 1, 0, Append(widths, width))
    ELSE IF index_of(chars[i], DIGIT_CHARS) # 0
    THEN rank_widths(chars, i + 1, width + index_of(chars[i], DIGIT_CHARS) - 1, widths)
    ELSE rank_widths(chars, i + 1, width + 1, widths)

\* A FEN that cannot be parsed: a field is missing, the side is neither w nor b,
\* a placement character is no piece letter, there are more than eight ranks or
\* a rank describes more than eight files.
fen_unparseable(fen) ==
    \/ Len(fen) < 2
    \/ fen[2] \notin {<<"w">>, <<"b">>}
    \/ \E i \in 1..Len(fen[1]) :
           /\ fen[1][i] # "/"
           /\ index_of(fen[1][i], DIGIT_CHARS) = 0
           /\ fen[1][i] \notin FEN_PIECE_LETTERS
    \/ LET widths == rank_widths(fen[1], 1, 0, <<>>)
       IN  Len(widths) > 8 \/ \E r \in 1..Len(widths) : widths[r] > 8

(***************************************************************************)
(* C16: a position fen line whose FEN cannot be parsed leaves the position *)
(* as it was, prints nothing, and the controller goes on reading.          *)
(***************************************************************************)
C16_UnparseableFenIsIgnored ==
    seen # <<>> /\ is_position_fen_command(seen[1])
                /\ fen_unparseable(fen_words(seen[1])) =>
        /\ state = prev
        /\ stdout = <<>>
        /\ proc = "running"

(***************************************************************************)
(* C17: after a position startpos moves line whose tokens are all legal in *)
(* turn, the position is the start position with exactly those moves       *)
(* applied in order, whatever position and history the engine held before  *)
(* the line.                                                               *)
(***************************************************************************)
C17_StartposLineRebuildsThePosition ==
    seen # <<>> /\ startpos_tokens(seen[1]) # <<>> =>
        LET left == tokens_applied(GameState_new, startpos_tokens(seen[1]), 1)
        IN  left.stopped = 0 => state = left.state /\ proc = "running"

\* position startpos moves e2e4 e7e5 was read when an earlier line had left the
\* position after e2e4: one white and one black pawn have moved, White is to
\* move again.
C17_Witness ==
    /\ seen = <<L_e4_e5>>
    /\ piece_at(prev.board, <<4, 3>>) = [color |-> "White", kind |-> "Pawn"]
    /\ piece_at(prev.board, <<4, 6>>) = [color |-> "Black", kind |-> "Pawn"]
    /\ prev.side_to_move = "Black"
    /\ piece_at(state.board, <<4, 3>>) = [color |-> "White", kind |-> "Pawn"]
    /\ piece_at(state.board, <<4, 4>>) = [color |-> "Black", kind |-> "Pawn"]
    /\ piece_at(state.board, <<4, 1>>) = NoPiece
    /\ piece_at(state.board, <<4, 6>>) = NoPiece
    /\ state.side_to_move = "White"

COMMAND_WORDS == {W_uci, W_isready, W_ucinewgame, W_position, W_go, W_quit}

(***************************************************************************)
(* C18: a line whose first token is none of uci, isready, ucinewgame,      *)
(* position, go and quit prints nothing and leaves the position unchanged. *)
(***************************************************************************)
C18_UnknownCommandIsIgnored ==
    seen # <<>> /\ seen[1] # <<>> /\ seen[1][1] \notin COMMAND_WORDS =>
        /\ stdout = <<>>
        /\ state = prev

(***************************************************************************)
(* C19: a search leaves the live position as it was: after Engine::go the  *)
(* position of the engine equals the position before the call in every     *)
(* field, whatever move the search returned.                               *)
(***************************************************************************)
C19_SearchKeepsThePosition ==
    result = "go" => state = prev

\* A go that returned a move, from a position other than the start position.
C19_Witness ==
    /\ result = "go"
    /\ last # NoMove
    /\ prev # GameState_new
    /\ state = prev

\* The legal candidates of the root in move order, as indices of
\* ordered_candidates.
legal_indices(st) ==
    {i \in 1..Len(ordered_candidates(st)) : in_legal_moves(st, ordered_candidates(st)[i])}

\* The first legal candidate in move order.
first_legal(st) == CHOOSE i \in legal_indices(st) : \A j \in legal_indices(st) : i <= j

\* The score of candidate i at the root: the negated value of search_ab on the
\* position after it, called with the window (alpha, beta).
root_score(st, i, depth, alpha, beta) ==
    -search_ab(apply_move_unchecked(st, ordered_candidates(st)[i]), depth, alpha, beta)

(***************************************************************************)
(* C21: Engine::go scores the first legal candidate with the full window   *)
(* to get s0 and every other legal candidate with the window (-INF, -s0);  *)
(* it returns the first candidate unless another one scores strictly above *)
(* s0, and then one of the greatest score.  A tie with s0 never replaces   *)
(* the first candidate.                                                    *)
(***************************************************************************)
C21_RootKeepsFirstUnlessStrictlyBetter ==
    search.phase = "go returned" /\ legal_indices(state) # {} =>
        LET first == first_legal(state)
            s0 == root_score(state, first, search.depth, -INF, INF)
            others == legal_indices(state) \ {first}
            scores == {<<root_score(state, i, search.depth, -INF, -s0), i>> : i \in others}
            better == {x \in scores : x[1] > s0}
        IN  /\ search.best_score = s0
            /\ search.results = scores
            /\ IF better = {}
               THEN last = ordered_candidates(state)[first]
               ELSE \E x \in better :
                        /\ last = ordered_candidates(state)[x[2]]
                        /\ \A y \in scores : y[1] <= x[1]

\* go returned the capture on e5, which is not the first candidate: the capture
\* on c5 comes first in move order and scores lower.
C21_Witness ==
    /\ search.phase = "go returned"
    /\ state = ROOT_PAWNS
    /\ last = Move(<<3, 3>>, <<4, 4>>, Normal)
    /\ ordered_candidates(state)[1] = Move(<<3, 3>>, <<2, 4>>, Normal)
    /\ search.best_score < 0 - 1

\* The greatest element of a non-empty set of integers.
Max(S) == CHOOSE x \in S : \A y \in S : y <= x

\* Material of the side to move minus material of the other side.
material_balance(st) ==
    LET count(color, kind) == Cardinality(squares_of(st.board, Piece(color, kind)))
        side(color) == count(color, "Pawn") + 3 * count(color, "Knight")
                       + 3 * count(color, "Bishop") + 5 * count(color, "Rook")
                       + 9 * count(color, "Queen")
    IN  side(st.side_to_move) - side(opposite(st.side_to_move))

\* The plain negamax value to depth d: material at the horizon, -MATE_SCORE or 0
\* at a node without legal moves, else the greatest negated value of a child.
RECURSIVE negamax(_, _)
negamax(st, d) ==
    IF d = 0 THEN material_balance(st)
    ELSE LET legal == legal_moves(st) IN
         IF legal = <<>>
         THEN IF is_in_check(st, st.side_to_move) THEN -MATE_SCORE ELSE 0
         ELSE Max({-negamax(apply_move_unchecked(st, legal[i]), d - 1) : i \in 1..Len(legal)})

(***************************************************************************)
(* C22: for a window alpha < beta the value v of search_ab is the plain    *)
(* negamax value n when alpha < n < beta, is at most alpha when n <= alpha *)
(* and at least beta when n >= beta; with the window (-INF, INF) it is n.  *)
(***************************************************************************)
C22_SearchAbBoundsNegamax ==
    search.phase = "search_ab returned" =>
        LET n == negamax(state, search.depth)
            v == search.value
        IN  /\ search.alpha < n /\ n < search.beta => v = n
            /\ n <= search.alpha => v <= search.alpha
            /\ n >= search.beta => v >= search.beta
            /\ search.alpha = -INF /\ search.beta = INF => v = n

\* A search to depth 2 that was cut off: the value returned is
\* at least beta and is not the negamax value.
C22_Witness ==
    /\ search.phase = "search_ab returned"
    /\ search.depth = 2
    /\ search.value >= search.beta
    /\ search.value # negamax(state, 2)

\* The fixed-depth negamax value of root candidate i of st for the side to move.
move_value(st, i, depth) ==
    neg(negamax(try_apply_legal(st, ordered_candidates(st)[i])[1], depth))

\* C23: the move go returns is a legal root move of the greatest fixed-depth
\* negamax value among all legal root moves; scoring the candidates after the
\* first with the window (-INF, -alpha0) neither misses a strictly better move
\* nor picks a strictly worse one. None is returned only without a legal move.
C23_GoReturnsNegamaxMaximum ==
    search.phase = "go returned" =>
        LET moves == ordered_candidates(state)
            legal == passing(state)
            values == {<<move_value(state, j, search.depth), j>> : j \in legal}
        IN  IF legal = {} THEN last = NoMove
            ELSE \E x \in values :
                     /\ moves[x[2]] = last
                     /\ \A y \in values : y[1] <= x[1]

\* go has returned from a search to depth 2 in which a worker's result was only
\* a bound, above the negamax value of its move, and the returned move is
\* strictly better than that move.
C23_Witness ==
    /\ search.phase = "go returned"
    /\ search.depth = 2
    /\ \E x \in search.results, i \in passing(state) :
           /\ x[1] > move_value(state, x[2], search.depth)
           /\ ordered_candidates(state)[i] = last
           /\ move_value(state, i, search.depth)
                  > move_value(state, x[2], search.depth)

\* C24: search_ab at depth >= 1 on a position whose side to move has no legal
\* move returns -MATE_SCORE when that side is in check and 0 when it is not,
\* whatever the depth left and the window; at depth 0 it returns the material
\* evaluation, also when the side to move has no legal move.
C24_NoLegalMoveScores ==
    search.phase = "search_ab returned" /\ passing(state) = {} =>
        IF search.depth = 0
        THEN search.value = material_balance(state)
        ELSE search.value =
                 IF is_in_check(state, state.side_to_move) THEN -1000000 ELSE 0

\* A checkmated position searched to depth 2 with a window above the mate score:
\* the value is -MATE_SCORE, below alpha.
C24_Witness ==
    /\ search.phase = "search_ab returned"
    /\ search.depth = 2
    /\ passing(state) = {}
    /\ is_in_check(state, state.side_to_move)
    /\ search.alpha = 0
    /\ search.value = -MATE_SCORE

\* C25: the outcome of the parallel phase of go does not depend on the order in
\* which the workers ran: once all of them have finished, the results are, for
\* every legal candidate after the first, the score of its own position under
\* the window (-INF, -s0), s0 being best_score as the first candidate left it,
\* and the best move is still the first candidate; the move returned differs
\* between interleavings only among the results that tie for the greatest score.
C25_ParallelPhaseIsOrderIndependent ==
    /\ search.phase = "parallel" => last = ordered_candidates(state)[search.start]
    /\ \/ search.phase = "parallel" /\ search.pending = {}
       \/ search.phase = "go returned" /\ search.start > 0
       => LET moves == ordered_candidates(state)
              s0 == search.best_score
              workers == ((search.start + 1)..Len(moves)) \cap legal_indices(state)
              score(i) == root_score(state, i, search.depth, -INF, -s0)
              expected == {<<score(i), i>> : i \in workers}
          IN  /\ search.results = expected
              /\ search.phase = "go returned" =>
                     \/ last = moves[search.start]
                     \/ \E x \in expected :
                            /\ last = moves[x[2]]
                            /\ \A y \in expected : y[1] <= x[1]

\* All workers have finished, in some order, with at least three results, two
\* of which tie for the greatest score, and one result is above best_score.
C25_Witness ==
    /\ search.phase = "parallel"
    /\ search.depth >= 1
    /\ search.pending = {}
    /\ Cardinality(search.results) >= 3
    /\ \E x, y \in search.results :
           /\ x[2] # y[2]
           /\ x[1] = y[1]
           /\ x[1] > search.best_score
           /\ \A z \in search.results : z[1] <= x[1]

\* The rank of a candidate in move order: capturing promotions, promotions,
\* captures, the rest.  En passant captures, a castle never does.
captures(st, mv) ==
    \/ mv.kind = EnPassant
    \/ mv.kind.tag \in {"Normal", "Promotion"} /\ piece_at(st.board, mv.to) # NoPiece

order_class(st, mv) ==
    IF mv.kind.tag = "Promotion"
    THEN IF captures(st, mv) THEN 1 ELSE 2
    ELSE IF captures(st, mv) THEN 3 ELSE 4

\* The candidates of class k, in the order of the sequence.
of_class(st, moves, k) == SelectSeq(moves, LAMBDA mv : order_class(st, mv) = k)

\* C26: ordered_candidates returns a permutation of generate_candidates in
\* which capturing promotions come first, then promotions, then captures (en
\* passant is one, a castle is none), then all other moves, and the moves of a
\* class keep the order in which the generator emitted them.
C26_OrderedCandidatesIsStableByClass ==
    search.phase = "ordered_candidates returned" =>
        LET moves == search.moves
            generated == generate_candidates(state)
        IN  /\ Len(moves) = Len(generated)
            /\ \A i, j \in 1..Len(moves) :
                   i < j => order_class(state, moves[i]) <= order_class(state, moves[j])
            /\ \A k \in 1..4 : of_class(state, moves, k) = of_class(state, generated, k)

\* An en-passant position ordered: the en-passant capture, emitted after a
\* push, stands before it, and the sequence differs from the generator's.
C26_Witness ==
    /\ search.phase = "ordered_candidates returned"
    /\ search.moves # generate_candidates(state)
    /\ \E i, j \in 1..Len(search.moves) :
           /\ i < j
           /\ search.moves[i].kind = EnPassant
           /\ order_class(state, search.moves[j]) = 4

\* The castles among a sequence of moves, of one kind.
castles_of(moves, kind) == SelectSeq(moves, LAMBDA mv : mv.kind = kind)

\* C27: generate_candidates emits a kingside castle for the side to move
\* exactly when its king stands on the e-file square of its home rank, its
\* kingside right is set, the f- and g-file squares of that rank are empty and
\* its own rook stands on the h-file corner, and the move takes the king to the
\* g-file square; a queenside castle exactly when the king stands there, the
\* queenside right is set, the b-, c- and d-file squares are empty and its own
\* rook stands on the a-file corner, and the move takes the king to the c-file.
C27_CastleEmittedIffConditions ==
    search.phase = "generate_candidates returned" =>
        LET side == state.side_to_move
            home == IF side = White THEN 0 ELSE 7
            at(f) == piece_at(state.board, <<f, home>>)
            rights == state.castling
            king_home == at(4) = Piece(side, "King")
            kingside == /\ king_home
                        /\ IF side = White THEN rights.white_kingside
                           ELSE rights.black_kingside
                        /\ at(5) = NoPiece /\ at(6) = NoPiece
                        /\ at(7) = Piece(side, "Rook")
            queenside == /\ king_home
                         /\ IF side = White THEN rights.white_queenside
                            ELSE rights.black_queenside
                         /\ at(1) = NoPiece /\ at(2) = NoPiece /\ at(3) = NoPiece
                         /\ at(0) = Piece(side, "Rook")
        IN  /\ castles_of(search.moves, CastleKingside) =
                   IF kingside THEN <<Move(<<4, home>>, <<6, home>>, CastleKingside)>>
                   ELSE <<>>
            /\ castles_of(search.moves, CastleQueenside) =
                   IF queenside THEN <<Move(<<4, home>>, <<2, home>>, CastleQueenside)>>
                   ELSE <<>>

\* Black's candidates generated with both rights set, king and rooks at home
\* and a piece on b8 only: the kingside castle to g8 is emitted, the queenside
\* castle is not.
C27_Witness ==
    /\ search.phase = "generate_candidates returned"
    /\ state.side_to_move = Black
    /\ state.castling.black_kingside /\ state.castling.black_queenside
    /\ piece_at(state.board, <<0, 7>>) = Piece(Black, "Rook")
    /\ piece_at(state.board, <<1, 7>>) # NoPiece
    /\ piece_at(state.board, <<2, 7>>) = NoPiece
    /\ piece_at(state.board, <<3, 7>>) = NoPiece
    /\ Move(<<4, 7>>, <<6, 7>>, CastleKingside) \in Range(search.moves)
    /\ castles_of(search.moves, CastleQueenside) = <<>>

\* C28: after a move has been applied the en-passant target is set exactly
\* when the move was a pawn advancing two ranks on its file, and it is then the
\* square the pawn passed over; so a target set by one move is gone after the
\* next move unless that move is a double push.
C28_EnPassantTargetIffDoublePush ==
    result = "Ok" =>
        LET piece == piece_at(prev.board, last.from)
            forward == IF piece.color = White THEN 2 ELSE -2
            double == /\ piece.kind = "Pawn"
                      /\ last.to[1] = last.from[1]
                      /\ last.to[2] - last.from[2] = forward
        IN  /\ state.en_passant # NoSquare <=> double
            /\ double => state.en_passant = <<last.from[1], (last.from[2] + last.to[2]) \div 2>>
            /\ prev.en_passant # NoSquare /\ ~double => state.en_passant = NoSquare

\* The squares that hold a piece.
occupied(board) == {sq \in Squares : piece_at(board, sq) # NoPiece}

\* The squares a move may change: from and to; for a castle the rook's corner
\* and the square the rook goes to; for en passant the square beside the pawn.
may_change(st, mv) ==
    LET home == IF st.side_to_move = White THEN 0 ELSE 7 IN
    {mv.from, mv.to}
    \cup (IF mv.kind = CastleKingside THEN {<<7, home>>, <<5, home>>} ELSE {})
    \cup (IF mv.kind = CastleQueenside THEN {<<0, home>>, <<3, home>>} ELSE {})
    \cup (IF mv.kind = EnPassant THEN {<<mv.to[1], mv.from[2]>>} ELSE {})

\* C29: applying a move taken from the generator flips the side to move and
\* changes no square other than from and to, for a castle the rook's corner and
\* the rook's f- or d-file square, for en passant the square (to.file,
\* from.rank), which held an enemy pawn and is empty afterwards; the number of
\* pieces drops by one for a capture and for en passant and stays the same
\* otherwise.
C29_ApplyChangesOnlyTheMoveSquares ==
    result = "Ok" =>
        LET capture == \/ last.kind = EnPassant
                       \/ ~is_castle(last.kind) /\ piece_at(prev.board, last.to) # NoPiece
            beside == <<last.to[1], last.from[2]>>
        IN  /\ state.side_to_move = opposite(prev.side_to_move)
            /\ \A sq \in Squares \ may_change(prev, last) :
                   piece_at(state.board, sq) = piece_at(prev.board, sq)
            /\ last.kind = EnPassant =>
                   /\ piece_at(prev.board, beside) = Piece(state.side_to_move, "Pawn")
                   /\ piece_at(state.board, beside) = NoPiece
            /\ Cardinality(occupied(state.board)) =
                   Cardinality(occupied(prev.board)) - (IF capture THEN 1 ELSE 0)

\* A queenside castle has been applied: four squares changed and the number of
\* pieces is the same.
C29_Witness ==
    /\ result = "Ok"
    /\ last.kind = CastleQueenside
    /\ Cardinality({sq \in Squares :
                       piece_at(state.board, sq) # piece_at(prev.board, sq)}) = 4
    /\ Cardinality(occupied(state.board)) = Cardinality(occupied(prev.board))

\* The position with other values for the side to move, the castling rights
\* and the en-passant target: the board is all that is kept.
same_board(st) ==
    { [st EXCEPT !.side_to_move = side,
                 !.castling = [white_kingside |-> right, white_queenside |-> right,
                               black_kingside |-> right, black_queenside |-> right],
                 !.en_passant = ep] :
          side \in Colors, right \in BOOLEAN, ep \in {NoSquare, <<3, 2>>, <<3, 5>>} }

\* C30: the attack oracle agrees with the move generator.  For a square S held
\* by a piece of the colour other than C, is_square_attacked(S, C) is true
\* exactly when generate_candidates with C to move contains a Normal or
\* Promotion move to S; and the answer is the same whatever the side to move,
\* the castling rights and the en-passant target are.
C30_AttackOracleAgreesWithGenerator ==
    search.phase = "is_square_attacked returned" =>
        LET C == search.by_color
            S == search.square
            moves == generate_candidates([state EXCEPT !.side_to_move = C])
            reaches == \E i \in 1..Len(moves) :
                           /\ moves[i].kind.tag \in {"Normal", "Promotion"}
                           /\ moves[i].to = S
        IN  /\ piece_at(state.board, S).color = opposite(C) => (search.attacked <=> reaches)
            /\ \A st \in same_board(state) : is_square_attacked(st, S, C) = search.attacked

\* The oracle was asked, for the side that is not to move, about a piece on the
\* last rank that a pawn one step from promotion attacks: attacked, and the
\* generator reaches the square by a capturing promotion.
C30_Witness ==
    /\ search.phase = "is_square_attacked returned"
    /\ search.attacked
    /\ search.by_color # state.side_to_move
    /\ piece_at(state.board, search.square).color = opposite(search.by_color)
    /\ \E mv \in Range(generate_candidates([state EXCEPT !.side_to_move = search.by_color])) :
           mv.kind.tag = "Promotion" /\ mv.to = search.square

\* C31: the cached king squares of the live position are the squares on which
\* the kings stand: white_king holds the White king and black_king the Black
\* king, in the initial position and after every applied move, king moves and
\* castles included.
C31_CachedKingSquaresAreTheKings ==
    /\ piece_at(state.board, state.white_king) = Piece(White, "King")
    /\ piece_at(state.board, state.black_king) = Piece(Black, "King")

\* C32: every value search_ab returns lies in [-MATE_SCORE, MATE_SCORE], well
\* inside the window bounds -INF and INF; the i32::MIN that best starts from is
\* never returned, and no negation of a score, of alpha or of beta overflows a
\* 32-bit signed integer, neither in the search nor when the caller at the root
\* negates the value returned.
C32_SearchValuesStayInRange ==
    search.phase = "search_ab returned" =>
        /\ -1000000 <= search.value /\ search.value <= 1000000
        /\ -1000000000 < search.value /\ search.value < 1000000000
        /\ search.value # I32_MIN
        /\ neg(search.value) = -search.value
        /\ ~search_ab_overflows(state, search.depth, search.alpha, search.beta)

\* A search to depth 2 under the full window from a position whose side to
\* move can give mate: the value is MATE_SCORE, the negation of the value
\* -MATE_SCORE of the checkmated position below it.
C32_Witness ==
    /\ search.phase = "search_ab returned"
    /\ search.depth = 2
    /\ search.alpha = -INF /\ search.beta = INF
    /\ search.value = MATE_SCORE

====
